---- MODULE Spec2Model ----
(***************************************************************************)
(* bumert: a fluent assertion library with two build variants.  The active *)
(* variant (build tags debug or bumert) checks a captured value with       *)
(* reflection and panics on a failed predicate; the inert variant returns  *)
(* a shared no-op handle from every call.                                  *)
(***************************************************************************)
EXTENDS Integers, Sequences, FiniteSets, TLC

\* Longest chain of predicate calls after one Should(...).
MaxChain == 2

(***************************************************************************)
(* Go values held in an `any`.  kind is reflect.Kind ("invalid" for the    *)
(* untyped nil), type the concrete type's name, isNil whether a nilable    *)
(* kind is internally nil, num the number of an integer kind (twice the    *)
(* number for a float kind, so that halves are integers; the pointee's     *)
(* number for a pointer to a number; 1/0 for a bool), elems the elements   *)
(* (array, slice, chan buffer), the values of a map with keys 1..n, the    *)
(* characters of a string, the fields of a struct or the characters of an  *)
(* error's message, isErr whether the type implements error, wraps the     *)
(* types found by unwrapping the error, nan whether a float is a          *)
(* not-a-number, and big how many times 2^53 is to be added to the number  *)
(* that num gives (2^53 is where float64 stops holding every integer).     *)
(***************************************************************************)
V(kind, type, isnil, num, elems, iserr, wraps) ==
    [kind |-> kind, type |-> type, isNil |-> isnil, num |-> num,
     elems |-> elems, isErr |-> iserr, wraps |-> wraps, nan |-> FALSE, big |-> 0]

Nil == V("invalid", "<nil>", TRUE, 0, <<>>, FALSE, <<>>)

\* true, false, and true of a named boolean type.
BoolValues ==
    { V("bool", "bool", FALSE, 1, <<>>, FALSE, <<>>),
      V("bool", "bool", FALSE, 0, <<>>, FALSE, <<>>),
      V("bool", "myBool", FALSE, 1, <<>>, FALSE, <<>>) }

IntV(n) == V("int", "int", FALSE, n, <<>>, FALSE, <<>>)

FloatV(twice) == V("float64", "float64", FALSE, twice, <<>>, FALSE, <<>>)

\* math.NaN()
NaN == [FloatV(0) EXCEPT !.nan = TRUE]

\* The number 2^53 above v's.
Above2p53(v) == [v EXCEPT !.big = 1]

\* Among them int64(1<<53), int64(1<<53 + 1), int(1<<53 + 1) and
\* float64(1<<53).
NumberValues ==
    { IntV(0), IntV(5), IntV(-1),
      V("int64", "int64", FALSE, 5, <<>>, FALSE, <<>>),
      Above2p53(V("int64", "int64", FALSE, 0, <<>>, FALSE, <<>>)),
      Above2p53(V("int64", "int64", FALSE, 1, <<>>, FALSE, <<>>)),
      Above2p53(IntV(1)), Above2p53(FloatV(0)),
      V("uint", "uint", FALSE, 0, <<>>, FALSE, <<>>),
      V("uint8", "uint8", FALSE, 7, <<>>, FALSE, <<>>),
      FloatV(0), FloatV(19), NaN }

StrV(type, chars) == V("string", type, FALSE, 0, chars, FALSE, <<>>)

StringValues ==
    { StrV("string", <<>>), StrV("string", <<1, 2>>), StrV("myString", <<1, 2>>) }

SliceValues ==
    { V("slice", "[]int", TRUE, 0, <<>>, FALSE, <<>>),
      V("slice", "[]int", FALSE, 0, <<>>, FALSE, <<>>),
      V("slice", "[]int", FALSE, 0, <<1, 2>>, FALSE, <<>>) }

MapValues ==
    { V("map", "map[int]int", TRUE, 0, <<>>, FALSE, <<>>),
      V("map", "map[int]int", FALSE, 0, <<>>, FALSE, <<>>),
      V("map", "map[int]int", FALSE, 0, <<1>>, FALSE, <<>>) }

ArrayValues ==
    { V("array", "[0]int", FALSE, 0, <<>>, FALSE, <<>>),
      V("array", "[2]int", FALSE, 0, <<0, 0>>, FALSE, <<>>),
      V("array", "[2]int", FALSE, 0, <<1, 2>>, FALSE, <<>>) }

ChanValues ==
    { V("chan", "chan int", TRUE, 0, <<>>, FALSE, <<>>),
      V("chan", "chan int", FALSE, 0, <<>>, FALSE, <<>>),
      V("chan", "chan int", FALSE, 0, <<1>>, FALSE, <<>>) }

FuncValues ==
    { V("func", "func()", TRUE, 0, <<>>, FALSE, <<>>),
      V("func", "func()", FALSE, 0, <<>>, FALSE, <<>>) }

PtrValues ==
    { V("ptr", "*int", TRUE, 0, <<>>, FALSE, <<>>),
      V("ptr", "*int", FALSE, 0, <<>>, FALSE, <<>>),
      V("ptr", "*int", FALSE, 5, <<>>, FALSE, <<>>) }

StructValues ==
    { V("struct", "struct {}", FALSE, 0, <<>>, FALSE, <<>>),
      V("struct", "comparableStruct", FALSE, 0, <<0, 0>>, FALSE, <<>>),
      V("struct", "comparableStruct", FALSE, 0, <<1, 1>>, FALSE, <<>>) }

\* errors.New("ab"), &os.PathError{}, a typed nil *os.PathError, an error
\* wrapping a *os.PathError (fmt.Errorf("%w")), and structError, a struct
\* type whose Error method has a value receiver.
ErrorValues ==
    { V("ptr", "*errors.errorString", FALSE, 0, <<1, 2>>, TRUE, <<>>),
      V("ptr", "*os.PathError", FALSE, 0, <<2>>, TRUE, <<>>),
      V("ptr", "*os.PathError", TRUE, 0, <<>>, TRUE, <<>>),
      V("ptr", "*fmt.wrapError", FALSE, 0, <<1, 2>>, TRUE, <<"*os.PathError">>),
      V("struct", "structError", FALSE, 0, <<1>>, TRUE, <<>>) }

\* The values a chain may capture.
Values ==
    {Nil} \cup BoolValues \cup NumberValues \cup StringValues \cup SliceValues
    \cup MapValues \cup ArrayValues \cup ChanValues \cup FuncValues
    \cup PtrValues \cup StructValues \cup ErrorValues

NilableKinds == {"chan", "func", "interface", "map", "ptr", "slice"}

LengthKinds == {"array", "chan", "map", "slice", "string"}

SignedKinds == {"int", "int8", "int16", "int32", "int64"}

UnsignedKinds == {"uint", "uint8", "uint16", "uint32", "uint64", "uintptr"}

FloatKinds == {"float32", "float64"}

\* value == nil: the interface holds no type at all.
IsUntypedNil(value) == value.kind = "invalid"

\* reflect.Value.IsNil for the kinds isNil asks it about.
ReflectIsNil(value) == value.isNil

isNil_UntypedOnly(value) == IsUntypedNil(value)

\* isNil: the untyped nil, or an internally nil value of a nilable kind.
isNil(value) ==
    IF IsUntypedNil(value) THEN TRUE
    ELSE IF value.kind \in NilableKinds THEN ReflectIsNil(value)
    ELSE FALSE

\* reflect.Value.IsZero, by kind.
ReflectIsZero(value) ==
    CASE value.kind = "bool" -> value.num = 0
      [] value.kind \in SignedKinds \cup UnsignedKinds -> value.num = 0 /\ value.big = 0
      [] value.kind \in FloatKinds -> ~value.nan /\ value.num = 0 /\ value.big = 0
      [] value.kind \in NilableKinds -> value.isNil
      [] value.kind = "string" -> Len(value.elems) = 0
      [] value.kind \in {"array", "struct"} ->
            \A i \in 1..Len(value.elems) : value.elems[i] = 0

isZero_ByLength(value) ==
    IF IsUntypedNil(value) THEN TRUE
    ELSE IF value.kind \in LengthKinds THEN Len(value.elems) = 0
    ELSE ReflectIsZero(value)

\* isZero: nil, or the zero value of its type.
isZero(value) ==
    IF IsUntypedNil(value) THEN TRUE ELSE ReflectIsZero(value)

getLength_NilIsZero(value) ==
    IF IsUntypedNil(value) \/ (value.kind \in NilableKinds /\ value.isNil)
    THEN <<0, TRUE>>
    ELSE IF value.kind \in LengthKinds THEN <<Len(value.elems), TRUE>>
    ELSE <<-1, FALSE>>

\* getLength: <<length, ok>>; <<-1, FALSE>> for what has no length.
getLength(value) ==
    IF IsUntypedNil(value) THEN <<-1, FALSE>>
    ELSE IF value.kind \in LengthKinds THEN <<Len(value.elems), TRUE>>
    ELSE <<-1, FALSE>>

(***************************************************************************)
(* Call stacks and the fail-fast signal.  A stack is a sequence of frames, *)
(* innermost first; a file is a sequence of path tokens, each "/" or a     *)
(* segment without one.                                                    *)
(***************************************************************************)
Frame(fn, file, line) == [fn |-> fn, file |-> file, line |-> line]

\* The file of the active variant (the Makefile's bumert_debug.go).
DebugFile == <<"/", "go", "/", "bumert", "/", "bumert_debug.go">>

\* A panic's payload: the dynamic type of the value given to panic and, for
\* a string, the pieces whose concatenation is the string.
Payload(type, text) == [type |-> type, text |-> text]

NoPanic == Payload("none", <<>>)

RECURSIVE Join(_)
Join(tokens) ==
    IF tokens = <<>> THEN "" ELSE Head(tokens) \o Join(Tail(tokens))

\* strings.LastIndex for a one-token separator: 0-based, -1 when absent.
LastIndex(tokens, sep) ==
    LET hits == {i \in 1..Len(tokens) : tokens[i] = sep}
    IN  IF hits = {} THEN -1
        ELSE (CHOOSE i \in hits : \A j \in hits : j <= i) - 1

\* runtime.Caller(skip), called by the function whose frame tops the stack:
\* skip = 0 names that function itself.
RuntimeCaller(skip, stack) ==
    IF skip + 1 <= Len(stack) THEN <<stack[skip + 1], TRUE>>
    ELSE <<Frame("", <<>>, 0), FALSE>>

\* getCallerInfo: "<file>:<line>" of the frame skipFrames above its caller.
getCallerInfo(skipFrames, stack) ==
    LET st == <<Frame("getCallerInfo", DebugFile, 16)>> \o stack
        c == RuntimeCaller(skipFrames + 1, st)
    IN  IF ~c[2] THEN "???:?"
        ELSE LET file == c[1].file
                 lastSlash == LastIndex(file, "/")
                 name == IF lastSlash >= 0
                           THEN SubSeq(file, lastSlash + 2, Len(file))
                           ELSE file
             IN  Join(name) \o ":" \o ToString(c[1].line)

failAssertion_SkipOne(stack, msg) ==
    LET st == <<Frame("failAssertion", DebugFile, 30)>> \o stack
    IN  Payload("string", <<getCallerInfo(1, st), ": assertion failed: ">> \o msg)

failAssertion_NoPanic(stack, msg) == NoPanic

\* failAssertion: panics with "<caller>: assertion failed: <message>"; msg is
\* the formatted message in pieces.  stack is the stack of the function that
\* calls failAssertion.
failAssertion(stack, msg) ==
    LET st == <<Frame("failAssertion", DebugFile, 30)>> \o stack
        callerInfo == getCallerInfo(2, st)
    IN  Payload("string", <<callerInfo, ": assertion failed: ">> \o msg)

\* What a call comes to: the handle it returns (<<>> when it panics), the
\* panic that leaves it (NoPanic when it returns), and how many times it
\* invoked a function given by the caller.
Outcome(ret, panic, calls) == [ret |-> ret, panic |-> panic, calls |-> calls]

\* `if failed { failAssertion(...) }; return a`: the signal ends the call.
ReturnUnless(signal, a) ==
    IF signal = NoPanic THEN Outcome(<<a>>, NoPanic, 0) ELSE Outcome(<<>>, signal, 0)

\* Two statements in a row: the second runs only if the first did not panic.
Then(first, second) == IF first # NoPanic THEN first ELSE second

\* fmt's %#v and %T, and %d.
GoString(value) ==
    CASE IsUntypedNil(value) -> "<nil>"
      [] value.kind = "bool" -> IF value.num = 1 THEN "true" ELSE "false"
      [] value.kind \in SignedKinds \cup UnsignedKinds ->
            LET digits == IF value.big = 0 THEN ToString(value.num)
                          ELSE "900719925474099" \o ToString(2 + value.num)
            IN  IF value.type = value.kind THEN digits
                ELSE value.type \o "(" \o digits \o ")"
      [] value.kind \in FloatKinds /\ value.nan -> "NaN"
      [] OTHER ->
            value.type \o ToString(<<value.isNil, value.big, value.num, value.elems>>)

TypeName(value) == value.type

Itoa(n) == ToString(n)


(***************************************************************************)
(* The active variant.  A holder lives at an address of the heap h; each   *)
(* predicate is given its receiver a, the heap, its operand and the stack  *)
(* of its caller, and yields its Outcome.                                  *)
(***************************************************************************)
Assertion(value) == [value |-> value]

\* Should: a new holder of value, at the fresh address a.
Should(value) == Assertion(value)

BeNil_NewHolder(a, h, stack) ==
    LET st == <<Frame("BeNil", DebugFile, 71)>> \o stack
        v == h[a].value
    IN  IF ~isNil(v)
        THEN ReturnUnless(failAssertion(st,
                 <<"should be nil: value (", GoString(v), ") of type ",
                   TypeName(v), " is not nil">>), a)
        ELSE Outcome(<<a + 1>>, NoPanic, 0)

BeNil(a, h, stack) ==
    LET st == <<Frame("BeNil", DebugFile, 71)>> \o stack
        v == h[a].value
    IN  ReturnUnless(
            IF ~isNil(v)
            THEN failAssertion(st, <<"should be nil: value (", GoString(v),
                                     ") of type ", TypeName(v), " is not nil">>)
            ELSE NoPanic, a)

NotBeNil_UntypedOnly(a, h, stack) ==
    LET st == <<Frame("NotBeNil", DebugFile, 80)>> \o stack
    IN  ReturnUnless(
            IF IsUntypedNil(h[a].value)
            THEN failAssertion(st, <<"should not be nil: value is nil">>)
            ELSE NoPanic, a)

NotBeNil(a, h, stack) ==
    LET st == <<Frame("NotBeNil", DebugFile, 80)>> \o stack
    IN  ReturnUnless(
            IF isNil(h[a].value)
            THEN failAssertion(st, <<"should not be nil: value is nil">>)
            ELSE NoPanic, a)

\* A caller's func() bool: what it returns.
Fn(returns) == [returns |-> returns]

TrueFn_NilGuard(a, h, f, stack) ==
    LET st == <<Frame("TrueFn", DebugFile, 90)>> \o stack
        r == ReturnUnless(
                 IF isNil(h[a].value) \/ ~f.returns
                 THEN failAssertion(st, <<"function returned false">>)
                 ELSE NoPanic, a)
    IN  [r EXCEPT !.calls = 1]

\* TrueFn: invokes f once, whatever the holder carries.
TrueFn(a, h, f, stack) ==
    LET st == <<Frame("TrueFn", DebugFile, 90)>> \o stack
        r == ReturnUnless(
                 IF ~f.returns THEN failAssertion(st, <<"function returned false">>)
                 ELSE NoPanic, a)
    IN  [r EXCEPT !.calls = 1]

\* a.value.(bool)
IsBool(value) == value.type = "bool"

BeTrue(a, h, stack) ==
    LET st == <<Frame("BeTrue", DebugFile, 101)>> \o stack
        v == h[a].value
    IN  ReturnUnless(
            IF ~IsBool(v) \/ v.num # 1
            THEN failAssertion(st, <<"should be true, but got: ", GoString(v),
                                     " (type ", TypeName(v), ")">>)
            ELSE NoPanic, a)

BeFalse_NotTrue(a, h, stack) ==
    LET st == <<Frame("BeFalse", DebugFile, 110)>> \o stack
        v == h[a].value
    IN  ReturnUnless(
            IF IsBool(v) /\ v.num = 1
            THEN failAssertion(st, <<"should be false, but got: ", GoString(v),
                                     " (type ", TypeName(v), ")">>)
            ELSE NoPanic, a)

BeFalse(a, h, stack) ==
    LET st == <<Frame("BeFalse", DebugFile, 110)>> \o stack
        v == h[a].value
    IN  ReturnUnless(
            IF ~IsBool(v) \/ v.num = 1
            THEN failAssertion(st, <<"should be false, but got: ", GoString(v),
                                     " (type ", TypeName(v), ")">>)
            ELSE NoPanic, a)

\* reflect.DeepEqual on the values of the model: the same type and content;
\* two functions are equal only when both are nil, and a float that is a
\* not-a-number equals no float (Go's ==).
DeepEqual(v, w) ==
    IF v.kind = "func" /\ w.kind = "func"
    THEN v.type = w.type /\ v.isNil /\ w.isNil
    ELSE IF v.kind \in FloatKinds /\ w.kind \in FloatKinds /\ (v.nan \/ w.nan)
    THEN FALSE
    ELSE v = w

BeEqual_ByOperator(a, h, expected, stack) ==
    LET st == <<Frame("BeEqual", DebugFile, 120)>> \o stack
        v == h[a].value
    IN  IF v.type = expected.type /\ v.kind \in {"slice", "map", "func"}
        THEN Outcome(<<>>, Payload("runtime.Error",
                 <<"runtime error: comparing uncomparable type ", TypeName(v)>>), 0)
        ELSE ReturnUnless(
                 IF v # expected
                 THEN failAssertion(st, <<"should be equal:\n  expected: ",
                          GoString(expected), " (type ", TypeName(expected),
                          ")\n       got: ", GoString(v), " (type ", TypeName(v), ")">>)
                 ELSE NoPanic, a)

BeEqual(a, h, expected, stack) ==
    LET st == <<Frame("BeEqual", DebugFile, 120)>> \o stack
        v == h[a].value
    IN  ReturnUnless(
            IF ~DeepEqual(v, expected)
            THEN failAssertion(st, <<"should be equal:\n  expected: ",
                     GoString(expected), " (type ", TypeName(expected),
                     ")\n       got: ", GoString(v), " (type ", TypeName(v), ")">>)
            ELSE NoPanic, a)

NotBeEqual_NilsEqual(a, h, unexpected, stack) ==
    LET st == <<Frame("NotBeEqual", DebugFile, 133)>> \o stack
        v == h[a].value
    IN  ReturnUnless(
            IF (isNil(v) /\ isNil(unexpected)) \/ DeepEqual(v, unexpected)
            THEN failAssertion(st, <<"should not be equal, but got: ", GoString(v),
                                     " (type ", TypeName(v), ")">>)
            ELSE NoPanic, a)

NotBeEqual(a, h, unexpected, stack) ==
    LET st == <<Frame("NotBeEqual", DebugFile, 133)>> \o stack
        v == h[a].value
    IN  ReturnUnless(
            IF DeepEqual(v, unexpected)
            THEN failAssertion(st, <<"should not be equal, but got: ", GoString(v),
                                     " (type ", TypeName(v), ")">>)
            ELSE NoPanic, a)

BeEmpty_NoNilCheck(a, h, stack) ==
    LET v == h[a].value
        l == getLength(v)
    IN  IF l[2]
        THEN IF l[1] = 0 THEN Outcome(<<a>>, NoPanic, 0)
             ELSE ReturnUnless(
                      failAssertion(<<Frame("BeEmpty", DebugFile, 163)>> \o stack,
                          <<"should be empty, but got length ", Itoa(l[1]), ": ",
                            GoString(v)>>), a)
        ELSE ReturnUnless(
                 failAssertion(<<Frame("BeEmpty", DebugFile, 166)>> \o stack,
                     <<"should be empty, but got non-nil, non-length-testable value: ",
                       GoString(v), " (type ", TypeName(v), ")">>), a)

BeEmpty(a, h, stack) ==
    LET v == h[a].value
        l == getLength(v)
    IN  IF isNil(v) THEN Outcome(<<a>>, NoPanic, 0)
        ELSE IF l[2]
        THEN IF l[1] = 0 THEN Outcome(<<a>>, NoPanic, 0)
             ELSE ReturnUnless(
                      failAssertion(<<Frame("BeEmpty", DebugFile, 163)>> \o stack,
                          <<"should be empty, but got length ", Itoa(l[1]), ": ",
                            GoString(v)>>), a)
        ELSE ReturnUnless(
                 failAssertion(<<Frame("BeEmpty", DebugFile, 166)>> \o stack,
                     <<"should be empty, but got non-nil, non-length-testable value: ",
                       GoString(v), " (type ", TypeName(v), ")">>), a)

NotBeEmpty_LengthOnly(a, h, stack) ==
    LET v == h[a].value
        l == getLength(v)
    IN  ReturnUnless(
            IF l[2] /\ l[1] = 0
            THEN failAssertion(<<Frame("NotBeEmpty", DebugFile, 178)>> \o stack,
                     <<"should not be empty, but got zero length: ", GoString(v)>>)
            ELSE NoPanic, a)

NotBeEmpty(a, h, stack) ==
    LET v == h[a].value
        l == getLength(v)
    IN  ReturnUnless(
            Then(IF isNil(v)
                 THEN failAssertion(<<Frame("NotBeEmpty", DebugFile, 175)>> \o stack,
                          <<"should not be empty, but got nil">>)
                 ELSE NoPanic,
                 IF l[2] /\ l[1] = 0
                 THEN failAssertion(<<Frame("NotBeEmpty", DebugFile, 178)>> \o stack,
                          <<"should not be empty, but got zero length: ", GoString(v)>>)
                 ELSE NoPanic), a)

HaveLen(a, h, expectedLen, stack) ==
    LET v == h[a].value
        l == getLength(v)
    IN  ReturnUnless(
            IF l[2]
            THEN IF l[1] # expectedLen
                 THEN failAssertion(<<Frame("HaveLen", DebugFile, 189)>> \o stack,
                          <<"should have length ", Itoa(expectedLen), ", but got ",
                            Itoa(l[1]), ": ", GoString(v)>>)
                 ELSE NoPanic
            ELSE failAssertion(<<Frame("HaveLen", DebugFile, 192)>> \o stack,
                     <<"should have length, but got non-length-testable value: ",
                       GoString(v), " (type ", TypeName(v), ")">>), a)


\* strings.Contains, strings.HasPrefix, strings.HasSuffix on characters.
Contains(str, sub) ==
    \E i \in 1..(Len(str) + 1) :
        i + Len(sub) - 1 <= Len(str) /\ SubSeq(str, i, i + Len(sub) - 1) = sub

HasPrefix(str, prefix) ==
    Len(prefix) <= Len(str) /\ SubSeq(str, 1, Len(prefix)) = prefix

HasSuffix(str, suffix) ==
    Len(suffix) <= Len(str)
    /\ SubSeq(str, Len(str) - Len(suffix) + 1, Len(str)) = suffix

\* fmt's %#v of a string.
Quote(chars) == "\"" \o ToString(chars) \o "\""

\* val.Index(i).Interface(): the i-th element of a slice or array of ints,
\* or of a []string.
ElementAt(value, i) ==
    IF value.type = "[]string" THEN StrV("string", value.elems[i])
    ELSE IntV(value.elems[i])

\* expectedElement.(string)
IsString(value) == value.type = "string"

Contain_WithMaps(a, h, expectedElement, stack) ==
    LET v == h[a].value
        sub == IF IsString(expectedElement) THEN expectedElement.elems ELSE <<>>
    IN  ReturnUnless(
          CASE v.kind = "string" ->
                 Then(IF ~IsString(expectedElement)
                      THEN failAssertion(<<Frame("Contain", DebugFile, 207)>> \o stack,
                               <<"Contain expected a string element for string value, got ",
                                 TypeName(expectedElement)>>)
                      ELSE NoPanic,
                      IF ~Contains(v.elems, sub)
                      THEN failAssertion(<<Frame("Contain", DebugFile, 210)>> \o stack,
                               <<"string ", GoString(v), " should contain substring ",
                                 Quote(sub)>>)
                      ELSE NoPanic)
            [] v.kind \in {"slice", "array", "map"} ->
                 IF ~(\E i \in 1..Len(v.elems) : DeepEqual(ElementAt(v, i), expectedElement))
                 THEN failAssertion(<<Frame("Contain", DebugFile, 221)>> \o stack,
                          <<"collection ", GoString(v), " should contain element ",
                            GoString(expectedElement)>>)
                 ELSE NoPanic
            [] OTHER ->
                 failAssertion(<<Frame("Contain", DebugFile, 225)>> \o stack,
                     <<"Contain requires slice, array, or string, got ", TypeName(v)>>),
          a)

Contain(a, h, expectedElement, stack) ==
    LET v == h[a].value
        sub == IF IsString(expectedElement) THEN expectedElement.elems ELSE <<>>
    IN  ReturnUnless(
          CASE v.kind = "string" ->
                 Then(IF ~IsString(expectedElement)
                      THEN failAssertion(<<Frame("Contain", DebugFile, 207)>> \o stack,
                               <<"Contain expected a string element for string value, got ",
                                 TypeName(expectedElement)>>)
                      ELSE NoPanic,
                      IF ~Contains(v.elems, sub)
                      THEN failAssertion(<<Frame("Contain", DebugFile, 210)>> \o stack,
                               <<"string ", GoString(v), " should contain substring ",
                                 Quote(sub)>>)
                      ELSE NoPanic)
            [] v.kind \in {"slice", "array"} ->
                 IF ~(\E i \in 1..Len(v.elems) : DeepEqual(ElementAt(v, i), expectedElement))
                 THEN failAssertion(<<Frame("Contain", DebugFile, 221)>> \o stack,
                          <<"collection ", GoString(v), " should contain element ",
                            GoString(expectedElement)>>)
                 ELSE NoPanic
            [] OTHER ->
                 failAssertion(<<Frame("Contain", DebugFile, 225)>> \o stack,
                     <<"Contain requires slice, array, or string, got ", TypeName(v)>>),
          a)

NotContain(a, h, unexpectedElement, stack) ==
    LET v == h[a].value
        sub == IF IsString(unexpectedElement) THEN unexpectedElement.elems ELSE <<>>
    IN  ReturnUnless(
          CASE v.kind = "string" ->
                 Then(IF ~IsString(unexpectedElement)
                      THEN failAssertion(<<Frame("NotContain", DebugFile, 240)>> \o stack,
                               <<"NotContain expected a string element for string value, got ",
                                 TypeName(unexpectedElement)>>)
                      ELSE NoPanic,
                      IF Contains(v.elems, sub)
                      THEN failAssertion(<<Frame("NotContain", DebugFile, 243)>> \o stack,
                               <<"string ", GoString(v), " should not contain substring ",
                                 Quote(sub)>>)
                      ELSE NoPanic)
            [] v.kind \in {"slice", "array"} ->
                 IF \E i \in 1..Len(v.elems) : DeepEqual(ElementAt(v, i), unexpectedElement)
                 THEN failAssertion(<<Frame("NotContain", DebugFile, 254)>> \o stack,
                          <<"collection ", GoString(v), " should not contain element ",
                            GoString(unexpectedElement)>>)
                 ELSE NoPanic
            [] OTHER ->
                 failAssertion(<<Frame("NotContain", DebugFile, 258)>> \o stack,
                     <<"NotContain requires slice, array, or string, got ", TypeName(v)>>),
          a)

\* str, ok := a.value.(string): the zero string when the assertion fails.
AsString(value) == IF IsString(value) THEN value.elems ELSE <<>>

ContainSubstring(a, h, substring, stack) ==
    LET v == h[a].value
        str == AsString(v)
    IN  ReturnUnless(
            Then(IF ~IsString(v)
                 THEN failAssertion(<<Frame("ContainSubstring", DebugFile, 268)>> \o stack,
                          <<"ContainSubstring requires a string value, got ", TypeName(v)>>)
                 ELSE NoPanic,
                 IF ~Contains(str, substring)
                 THEN failAssertion(<<Frame("ContainSubstring", DebugFile, 271)>> \o stack,
                          <<"string ", Quote(str), " should contain substring ",
                            Quote(substring)>>)
                 ELSE NoPanic), a)

HavePrefix(a, h, prefix, stack) ==
    LET v == h[a].value
        str == AsString(v)
    IN  ReturnUnless(
            Then(IF ~IsString(v)
                 THEN failAssertion(<<Frame("HavePrefix", DebugFile, 281)>> \o stack,
                          <<"HavePrefix requires a string value, got ", TypeName(v)>>)
                 ELSE NoPanic,
                 IF ~HasPrefix(str, prefix)
                 THEN failAssertion(<<Frame("HavePrefix", DebugFile, 284)>> \o stack,
                          <<"string ", Quote(str), " should have prefix ", Quote(prefix)>>)
                 ELSE NoPanic), a)

HaveSuffix(a, h, suffix, stack) ==
    LET v == h[a].value
        str == AsString(v)
    IN  ReturnUnless(
            Then(IF ~IsString(v)
                 THEN failAssertion(<<Frame("HaveSuffix", DebugFile, 294)>> \o stack,
                          <<"HaveSuffix requires a string value, got ", TypeName(v)>>)
                 ELSE NoPanic,
                 IF ~HasSuffix(str, suffix)
                 THEN failAssertion(<<Frame("HaveSuffix", DebugFile, 297)>> \o stack,
                          <<"string ", Quote(str), " should have suffix ", Quote(suffix)>>)
                 ELSE NoPanic), a)

BeZero(a, h, stack) ==
    LET st == <<Frame("BeZero", DebugFile, 316)>> \o stack
        v == h[a].value
    IN  ReturnUnless(
            IF ~isZero(v)
            THEN failAssertion(st, <<"should be the zero value, but got: ", GoString(v),
                                     " (type ", TypeName(v), ")">>)
            ELSE NoPanic, a)

NotBeZero(a, h, stack) ==
    LET st == <<Frame("NotBeZero", DebugFile, 325)>> \o stack
        v == h[a].value
    IN  ReturnUnless(
            IF isZero(v)
            THEN failAssertion(st, <<"should not be the zero value, but got: ",
                                     GoString(v), " (type ", TypeName(v), ")">>)
            ELSE NoPanic, a)


\* reflect.Kind in the order of its constants, up to the numeric kinds.
ReflectKinds ==
    <<"invalid", "bool", "int", "int8", "int16", "int32", "int64", "uint",
      "uint8", "uint16", "uint32", "uint64", "uintptr", "float32", "float64">>

\* The number of a kind; the kinds after float64 all come later.
KindNumber(k) ==
    IF \E i \in 1..Len(ReflectKinds) : ReflectKinds[i] = k
    THEN CHOOSE i \in 1..Len(ReflectKinds) : ReflectKinds[i] = k
    ELSE Len(ReflectKinds) + 1

\* The switch over op, on numbers <<big, n>> that stand for big * 2^53 + n.
Relation(n1, n2, op) ==
    LET less(x, y) == x[1] < y[1] \/ (x[1] = y[1] /\ x[2] < y[2])
    IN  CASE op = ">" -> less(n2, n1)
          [] op = "<" -> less(n1, n2)
          [] op = ">=" -> ~less(n1, n2)
          [] op = "<=" -> ~less(n2, n1)

\* The switch over op on float64: every comparison with a not-a-number is
\* false.
FloatRelation(v1, v2, n1, n2, op) ==
    ~v1.nan /\ ~v2.nan /\ Relation(n1, n2, op)

\* float64(n) of the integer big * 2^53 + n: exact below 2^53; from 2^53 to
\* 2^54 float64 holds the even integers only, and the conversion rounds an
\* odd one to the nearest of them with an even mantissa, a multiple of 4
\* above 2^53.
Float64Of(big, n) ==
    IF big = 0 \/ n % 2 = 0 THEN n
    ELSE IF n % 4 = 1 THEN n - 1
    ELSE n + 1

\* convertToFloat64: <<the float, ok>>, the float as <<big, twice n>>.
convertToFloat64(v) ==
    CASE v.kind \in SignedKinds -> <<<<v.big, 2 * Float64Of(v.big, v.num)>>, TRUE>>
      [] v.kind \in UnsignedKinds -> <<<<v.big, 2 * Float64Of(v.big, v.num)>>, TRUE>>
      [] v.kind \in FloatKinds -> <<<<v.big, v.num>>, TRUE>>
      [] OTHER -> <<<<0, 0>>, FALSE>>

isNumeric(k) ==
    \/ KindNumber(k) >= KindNumber("int") /\ KindNumber(k) <= KindNumber("int64")
    \/ KindNumber(k) >= KindNumber("uint") /\ KindNumber(k) <= KindNumber("uintptr")
    \/ KindNumber(k) >= KindNumber("float32") /\ KindNumber(k) <= KindNumber("float64")

Compared(result, ok, panic) == [result |-> result, ok |-> ok, panic |-> panic]

\* reflect.Value.Type panics on the zero Value, which reflect.ValueOf(nil) is.
ZeroValueType == Payload("*reflect.ValueError",
                         <<"reflect: call of reflect.Value.Type on zero Value">>)

compare_Widening(v1, v2, op) ==
    IF IsUntypedNil(v1) \/ IsUntypedNil(v2) THEN Compared(FALSE, FALSE, ZeroValueType)
    ELSE IF isNumeric(v1.kind) /\ isNumeric(v2.kind)
              /\ convertToFloat64(v1)[2] /\ convertToFloat64(v2)[2]
    THEN Compared(FloatRelation(v1, v2, convertToFloat64(v1)[1],
                                convertToFloat64(v2)[1], op), TRUE, NoPanic)
    ELSE Compared(FALSE, FALSE, NoPanic)

\* compare: result and ok, or the panic of v1.Type() == v2.Type().
compare(v1, v2, op) ==
    IF IsUntypedNil(v1) \/ IsUntypedNil(v2) THEN Compared(FALSE, FALSE, ZeroValueType)
    ELSE IF v1.type = v2.type /\ v1.kind \in SignedKinds \cup UnsignedKinds
    THEN Compared(Relation(<<v1.big, v1.num>>, <<v2.big, v2.num>>, op), TRUE, NoPanic)
    ELSE IF v1.type = v2.type /\ v1.kind \in FloatKinds
    THEN Compared(FloatRelation(v1, v2, <<v1.big, v1.num>>, <<v2.big, v2.num>>, op),
                  TRUE, NoPanic)
    ELSE IF isNumeric(v1.kind) /\ isNumeric(v2.kind)
              /\ convertToFloat64(v1)[2] /\ convertToFloat64(v2)[2]
    THEN Compared(FloatRelation(v1, v2, convertToFloat64(v1)[1],
                                convertToFloat64(v2)[1], op), TRUE, NoPanic)
    ELSE Compared(FALSE, FALSE, NoPanic)

\* The body the four ordering predicates share, line for line.
Ordering(name, line, op, words, a, h, expected, stack) ==
    LET v == h[a].value
        c == compare(v, expected, op)
    IN  IF c.panic # NoPanic THEN Outcome(<<>>, c.panic, 0)
        ELSE ReturnUnless(
                 Then(IF ~c.ok
                      THEN failAssertion(<<Frame(name, DebugFile, line)>> \o stack,
                               <<name, " requires comparable numeric types", ", got ",
                                 TypeName(v), " and ", TypeName(expected)>>)
                      ELSE NoPanic,
                      IF ~c.result
                      THEN failAssertion(<<Frame(name, DebugFile, line + 3)>> \o stack,
                               <<words, GoString(expected), ", but got ", GoString(v)>>)
                      ELSE NoPanic), a)

BeGreaterThan(a, h, expected, stack) ==
    Ordering("BeGreaterThan", 430, ">", "should be greater than ", a, h, expected, stack)

BeLessThan(a, h, expected, stack) ==
    Ordering("BeLessThan", 444, "<", "should be less than ", a, h, expected, stack)

BeGreaterThanOrEqualTo(a, h, expected, stack) ==
    Ordering("BeGreaterThanOrEqualTo", 458, ">=",
             "should be greater than or equal to ", a, h, expected, stack)

BeLessThanOrEqualTo_Strict(a, h, expected, stack) ==
    Ordering("BeLessThanOrEqualTo", 472, "<",
             "should be less than or equal to ", a, h, expected, stack)

BeLessThanOrEqualTo(a, h, expected, stack) ==
    Ordering("BeLessThanOrEqualTo", 472, "<=",
             "should be less than or equal to ", a, h, expected, stack)

\* _, ok := a.value.(error)
IsError(value) == ~IsUntypedNil(value) /\ value.isErr

\* err.Error(), in characters.
ErrorText(value) == value.elems

BeError(a, h, stack) ==
    LET v == h[a].value
    IN  ReturnUnless(
            Then(IF isNil(v)
                 THEN failAssertion(<<Frame("BeError", DebugFile, 484)>> \o stack,
                          <<"should be an error, but got nil">>)
                 ELSE NoPanic,
                 IF ~IsError(v)
                 THEN failAssertion(<<Frame("BeError", DebugFile, 487)>> \o stack,
                          <<"should be an error, but got type ", TypeName(v),
                            " with value ", GoString(v)>>)
                 ELSE NoPanic), a)

NotBeError_NoNilCheck(a, h, stack) ==
    LET v == h[a].value
    IN  ReturnUnless(
            IF IsError(v)
            THEN failAssertion(<<Frame("NotBeError", DebugFile, 499)>> \o stack,
                     <<"should not be an error, but got: ", Quote(ErrorText(v))>>)
            ELSE NoPanic, a)

NotBeError(a, h, stack) ==
    LET v == h[a].value
    IN  ReturnUnless(
            IF ~isNil(v) /\ IsError(v)
            THEN failAssertion(<<Frame("NotBeError", DebugFile, 499)>> \o stack,
                     <<"should not be an error, but got: ", Quote(ErrorText(v))>>)
            ELSE NoPanic, a)


(***************************************************************************)
(* Targets of BeErrorOfType.  kind, type and isNil are those of the value  *)
(* passed; for a pointer, elemKind and elemType are the type it points to, *)
(* elemIsErr whether that type implements error, elemElemType the type one *)
(* level further down, and assignable the types of the universe's errors   *)
(* that may be assigned to the pointed-to type.                            *)
(***************************************************************************)
Target(kind, type, isnil, elemKind, elemType, elemIsErr, elemElemType, assignable) ==
    [kind |-> kind, type |-> type, isNil |-> isnil, elemKind |-> elemKind,
     elemType |-> elemType, elemIsErr |-> elemIsErr,
     elemElemType |-> elemElemType, assignable |-> assignable]

ErrorTypes == {e.type : e \in ErrorValues}

\* nil, the number 5, a nil **os.PathError, &pathErr, a *error, a *net.Error,
\* a *structError and a *int.
NilTarget == Target("invalid", "<nil>", TRUE, "", "", FALSE, "", {})

Targets ==
    { NilTarget,
      Target("int", "int", FALSE, "", "", FALSE, "", {}),
      Target("ptr", "**os.PathError", TRUE, "ptr", "*os.PathError", TRUE,
             "os.PathError", {"*os.PathError"}),
      Target("ptr", "**os.PathError", FALSE, "ptr", "*os.PathError", TRUE,
             "os.PathError", {"*os.PathError"}),
      Target("ptr", "*error", FALSE, "interface", "error", TRUE, "", ErrorTypes),
      Target("ptr", "*net.Error", FALSE, "interface", "net.Error", TRUE, "", {}),
      Target("ptr", "*structError", FALSE, "struct", "structError", TRUE, "",
             {"structError"}),
      Target("ptr", "*int", FALSE, "int", "int", FALSE, "", {"int"}) }

\* The types errors.As meets on err's chain: its own, then the wrapped ones.
ChainTypes(err) ==
    IF IsUntypedNil(err) THEN {}
    ELSE {err.type} \cup {err.wraps[i] : i \in 1..Len(err.wraps)}

\* errors.As(err, target) for a non-nil pointer target: whether some error of
\* the chain is assignable to the pointed-to type, or its panic when that
\* type is neither an interface nor an error.
errorsAs(err, target) ==
    IF target.elemKind # "interface" /\ ~target.elemIsErr
    THEN [found |-> FALSE,
          panic |-> Payload("string",
                       <<"errors: *target must be interface or implement error">>)]
    ELSE [found |-> ChainTypes(err) \cap target.assignable # {}, panic |-> NoPanic]

\* Kinds whose reflect.Type has an Elem.
ElemKinds == {"array", "chan", "map", "ptr", "slice"}

\* The name BeErrorOfType finds for the message: <<name, panic>>.
targetTypeName(target) ==
    IF target.elemKind = "interface" THEN <<target.elemType, NoPanic>>
    ELSE IF target.elemKind \in ElemKinds THEN <<target.elemElemType, NoPanic>>
    ELSE <<"", Payload("string", <<"reflect: Elem of invalid type ", target.elemType>>)>>

BeErrorOfType_TargetFirst(a, h, target, stack) ==
    LET v == h[a].value
        found == errorsAs(v, target)
        name == targetTypeName(target)
    IN  ReturnUnless(
          Then(IF target.kind # "ptr" \/ target.isNil
               THEN Payload("string",
                        <<"internal bumert error: ",
                          "BeErrorOfType target must be a non-nil pointer, got ",
                          target.type>>)
               ELSE NoPanic,
          Then(IF ~IsError(v) \/ isNil(v)
               THEN failAssertion(<<Frame("BeErrorOfType", DebugFile, 513)>> \o stack,
                        <<"should be a non-nil error, but got: ", GoString(v),
                          " (type ", TypeName(v), ")">>)
               ELSE NoPanic,
               IF found.panic # NoPanic THEN found.panic
               ELSE IF found.found THEN NoPanic
               ELSE IF name[2] # NoPanic THEN name[2]
               ELSE failAssertion(<<Frame("BeErrorOfType", DebugFile, 534)>> \o stack,
                        <<"error type should be ", name[1], " (or wrap it)",
                          ", but got type ", TypeName(v), ": ", Quote(ErrorText(v))>>))),
          a)

BeErrorOfType(a, h, target, stack) ==
    LET v == h[a].value
        found == errorsAs(v, target)
        name == targetTypeName(target)
    IN  ReturnUnless(
          Then(IF ~IsError(v) \/ isNil(v)
               THEN failAssertion(<<Frame("BeErrorOfType", DebugFile, 513)>> \o stack,
                        <<"should be a non-nil error, but got: ", GoString(v),
                          " (type ", TypeName(v), ")">>)
               ELSE NoPanic,
          Then(IF target.kind # "ptr" \/ target.isNil
               THEN Payload("string",
                        <<"internal bumert error: ",
                          "BeErrorOfType target must be a non-nil pointer, got ",
                          target.type>>)
               ELSE NoPanic,
               IF found.panic # NoPanic THEN found.panic
               ELSE IF found.found THEN NoPanic
               ELSE IF name[2] # NoPanic THEN name[2]
               ELSE failAssertion(<<Frame("BeErrorOfType", DebugFile, 534)>> \o stack,
                        <<"error type should be ", name[1], " (or wrap it)",
                          ", but got type ", TypeName(v), ": ", Quote(ErrorText(v))>>))),
          a)

BeErrorWithMessage(a, h, substring, stack) ==
    LET v == h[a].value
        message == IF IsError(v) THEN ErrorText(v) ELSE <<>>
    IN  ReturnUnless(
            Then(IF ~IsError(v) \/ isNil(v)
                 THEN failAssertion(<<Frame("BeErrorWithMessage", DebugFile, 544)>> \o stack,
                          <<"should be a non-nil error, but got: ", GoString(v),
                            " (type ", TypeName(v), ")">>)
                 ELSE NoPanic,
                 IF ~Contains(message, substring)
                 THEN failAssertion(<<Frame("BeErrorWithMessage", DebugFile, 548)>> \o stack,
                          <<"error message ", Quote(message),
                            " should contain substring ", Quote(substring)>>)
                 ELSE NoPanic), a)

\* Assert(condition): nothing is returned.
AssertCondition(condition, stack) ==
    LET st == <<Frame("Assert", DebugFile, 561)>> \o stack
    IN  Outcome(<<>>,
                IF ~condition THEN failAssertion(st, <<"condition was false">>)
                ELSE NoPanic, 0)

\* fmt.Sprintf(format, args...) for a format of literal pieces and %d verbs
\* and integer args: each verb takes the next arg, a verb without one prints
\* as missing, and the args left over are listed at the end.
RECURSIVE Sprintf(_, _)
Sprintf(format, args) ==
    IF format = <<>>
    THEN IF args = <<>> THEN <<>>
         ELSE <<"%!(EXTRA ">>
              \o [i \in 1..Len(args) |->
                     (IF i > 1 THEN ", " ELSE "") \o "int=" \o Itoa(args[i])]
              \o <<")">>
    ELSE IF Head(format) = "%d"
    THEN IF args = <<>> THEN <<"%!d(MISSING)">> \o Sprintf(Tail(format), args)
         ELSE <<Itoa(Head(args))>> \o Sprintf(Tail(format), Tail(args))
    ELSE <<Head(format)>> \o Sprintf(Tail(format), args)

\* What a caller hands to Assertf after the condition.
Message(format, args) == [format |-> format, args |-> args]

Assertf_NoArgs(condition, message, stack) ==
    LET st == <<Frame("Assertf", DebugFile, 569)>> \o stack
    IN  Outcome(<<>>,
                IF ~condition THEN failAssertion(st, Sprintf(message.format, <<>>))
                ELSE NoPanic, 0)

\* Assertf(condition, format, args...): the message is format with args
\* applied.
Assertf(condition, message, stack) ==
    LET st == <<Frame("Assertf", DebugFile, 569)>> \o stack
    IN  Outcome(<<>>,
                IF ~condition
                THEN failAssertion(st, Sprintf(message.format, message.args))
                ELSE NoPanic, 0)


(***************************************************************************)
(* The inert variant: one holder without fields, shared by every chain;    *)
(* every method returns its receiver and reads nothing.                    *)
(***************************************************************************)
\* &noOpAssertion
NoOpAddr == 0

\* Should: the address of the singleton, whatever the value.
NoOpShould(value) == NoOpAddr

NoOpBeNil(a) == Outcome(<<a>>, NoPanic, 0)

NoOpNotBeNil(a) == Outcome(<<a>>, NoPanic, 0)

NoOpTrueFn_Invoke(a, f) ==
    [ReturnUnless(IF ~f.returns THEN Payload("string", <<"function returned false">>)
                  ELSE NoPanic, a) EXCEPT !.calls = 1]

NoOpTrueFn(a, f) == Outcome(<<a>>, NoPanic, 0)

NoOpBeTrue(a) == Outcome(<<a>>, NoPanic, 0)

NoOpBeFalse(a) == Outcome(<<a>>, NoPanic, 0)

NoOpBeEqual(a, expected) == Outcome(<<a>>, NoPanic, 0)

NoOpNotBeEqual(a, unexpected) == Outcome(<<a>>, NoPanic, 0)

NoOpBeEmpty(a) == Outcome(<<a>>, NoPanic, 0)

NoOpNotBeEmpty(a) == Outcome(<<a>>, NoPanic, 0)

NoOpHaveLen(a, expectedLen) == Outcome(<<a>>, NoPanic, 0)

NoOpContain(a, expectedElement) == Outcome(<<a>>, NoPanic, 0)

NoOpNotContain(a, unexpectedElement) == Outcome(<<a>>, NoPanic, 0)

NoOpContainSubstring(a, substring) == Outcome(<<a>>, NoPanic, 0)

NoOpHavePrefix(a, prefix) == Outcome(<<a>>, NoPanic, 0)

NoOpHaveSuffix(a, suffix) == Outcome(<<a>>, NoPanic, 0)

NoOpBeZero(a) == Outcome(<<a>>, NoPanic, 0)

NoOpNotBeZero(a) == Outcome(<<a>>, NoPanic, 0)

NoOpBeGreaterThan(a, expected) == Outcome(<<a>>, NoPanic, 0)

NoOpBeLessThan(a, expected) == Outcome(<<a>>, NoPanic, 0)

NoOpBeGreaterThanOrEqualTo(a, expected) == Outcome(<<a>>, NoPanic, 0)

NoOpBeLessThanOrEqualTo(a, expected) == Outcome(<<a>>, NoPanic, 0)

NoOpBeError(a) == Outcome(<<a>>, NoPanic, 0)

NoOpNotBeError(a) == Outcome(<<a>>, NoPanic, 0)

NoOpBeErrorOfType(a, target) == Outcome(<<a>>, NoPanic, 0)

NoOpBeErrorWithMessage(a, substring) == Outcome(<<a>>, NoPanic, 0)

NoOpAssert(condition) == Outcome(<<>>, NoPanic, 0)

NoOpAssertf(condition, message) == Outcome(<<>>, NoPanic, 0)

(***************************************************************************)
(* The build: each file is compiled in when its constraint holds of the    *)
(* tags given to the build.                                                *)
(***************************************************************************)
\* //go:build debug || bumert
DebugConstraint(debug, bumert) == debug \/ bumert

ReleaseConstraint_Or(debug, bumert) == ~debug \/ ~bumert

\* //go:build !debug && !bumert
ReleaseConstraint(debug, bumert) == ~debug /\ ~bumert

\* The variants a build with these tags compiles in.
Selected(debug, bumert) ==
    (IF DebugConstraint(debug, bumert) THEN {"active"} ELSE {})
    \cup (IF ReleaseConstraint(debug, bumert) THEN {"inert"} ELSE {})

(***************************************************************************)
(* The exported surface of each variant: every exported function and       *)
(* method with its receiver, parameter types and result type.              *)
(***************************************************************************)
Sig(name, recv, params, result) ==
    [name |-> name, recv |-> recv, params |-> params, result |-> result]

DebugSurface ==
    { Sig("Should", "", <<"any">>, "*Assertion"),
      Sig("BeNil", "*Assertion", <<>>, "*Assertion"),
      Sig("NotBeNil", "*Assertion", <<>>, "*Assertion"),
      Sig("TrueFn", "*Assertion", <<"func() bool">>, "*Assertion"),
      Sig("BeTrue", "*Assertion", <<>>, "*Assertion"),
      Sig("BeFalse", "*Assertion", <<>>, "*Assertion"),
      Sig("BeEqual", "*Assertion", <<"any">>, "*Assertion"),
      Sig("NotBeEqual", "*Assertion", <<"any">>, "*Assertion"),
      Sig("BeEmpty", "*Assertion", <<>>, "*Assertion"),
      Sig("NotBeEmpty", "*Assertion", <<>>, "*Assertion"),
      Sig("HaveLen", "*Assertion", <<"int">>, "*Assertion"),
      Sig("Contain", "*Assertion", <<"any">>, "*Assertion"),
      Sig("NotContain", "*Assertion", <<"any">>, "*Assertion"),
      Sig("ContainSubstring", "*Assertion", <<"string">>, "*Assertion"),
      Sig("HavePrefix", "*Assertion", <<"string">>, "*Assertion"),
      Sig("HaveSuffix", "*Assertion", <<"string">>, "*Assertion"),
      Sig("BeZero", "*Assertion", <<>>, "*Assertion"),
      Sig("NotBeZero", "*Assertion", <<>>, "*Assertion"),
      Sig("BeGreaterThan", "*Assertion", <<"any">>, "*Assertion"),
      Sig("BeLessThan", "*Assertion", <<"any">>, "*Assertion"),
      Sig("BeGreaterThanOrEqualTo", "*Assertion", <<"any">>, "*Assertion"),
      Sig("BeLessThanOrEqualTo", "*Assertion", <<"any">>, "*Assertion"),
      Sig("BeError", "*Assertion", <<>>, "*Assertion"),
      Sig("NotBeError", "*Assertion", <<>>, "*Assertion"),
      Sig("BeErrorOfType", "*Assertion", <<"any">>, "*Assertion"),
      Sig("BeErrorWithMessage", "*Assertion", <<"string">>, "*Assertion"),
      Sig("Assert", "", <<"bool">>, ""),
      Sig("Assertf", "", <<"bool", "string", "...any">>, "") }

NoOpSurface_Stale == {sg \in DebugSurface : sg.name # "BeErrorWithMessage"}

NoOpSurface ==
    { Sig("Should", "", <<"any">>, "*Assertion"),
      Sig("BeNil", "*Assertion", <<>>, "*Assertion"),
      Sig("NotBeNil", "*Assertion", <<>>, "*Assertion"),
      Sig("TrueFn", "*Assertion", <<"func() bool">>, "*Assertion"),
      Sig("BeTrue", "*Assertion", <<>>, "*Assertion"),
      Sig("BeFalse", "*Assertion", <<>>, "*Assertion"),
      Sig("BeEqual", "*Assertion", <<"any">>, "*Assertion"),
      Sig("NotBeEqual", "*Assertion", <<"any">>, "*Assertion"),
      Sig("BeEmpty", "*Assertion", <<>>, "*Assertion"),
      Sig("NotBeEmpty", "*Assertion", <<>>, "*Assertion"),
      Sig("HaveLen", "*Assertion", <<"int">>, "*Assertion"),
      Sig("Contain", "*Assertion", <<"any">>, "*Assertion"),
      Sig("NotContain", "*Assertion", <<"any">>, "*Assertion"),
      Sig("ContainSubstring", "*Assertion", <<"string">>, "*Assertion"),
      Sig("HavePrefix", "*Assertion", <<"string">>, "*Assertion"),
      Sig("HaveSuffix", "*Assertion", <<"string">>, "*Assertion"),
      Sig("BeZero", "*Assertion", <<>>, "*Assertion"),
      Sig("NotBeZero", "*Assertion", <<>>, "*Assertion"),
      Sig("BeGreaterThan", "*Assertion", <<"any">>, "*Assertion"),
      Sig("BeLessThan", "*Assertion", <<"any">>, "*Assertion"),
      Sig("BeGreaterThanOrEqualTo", "*Assertion", <<"any">>, "*Assertion"),
      Sig("BeLessThanOrEqualTo", "*Assertion", <<"any">>, "*Assertion"),
      Sig("BeError", "*Assertion", <<>>, "*Assertion"),
      Sig("NotBeError", "*Assertion", <<>>, "*Assertion"),
      Sig("BeErrorOfType", "*Assertion", <<"any">>, "*Assertion"),
      Sig("BeErrorWithMessage", "*Assertion", <<"string">>, "*Assertion"),
      Sig("Assert", "", <<"bool">>, ""),
      Sig("Assertf", "", <<"bool", "string", "...any">>, "") }

Surface(variant) == IF variant = "active" THEN DebugSurface ELSE NoOpSurface

\* The methods of Assertion, by the kind of operand each takes.
NoArgPredicates ==
    {"BeNil", "NotBeNil", "BeTrue", "BeFalse", "BeEmpty", "NotBeEmpty", "BeZero",
     "NotBeZero", "BeError", "NotBeError"}

AnyPredicates ==
    {"BeEqual", "NotBeEqual", "Contain", "NotContain", "BeGreaterThan", "BeLessThan",
     "BeGreaterThanOrEqualTo", "BeLessThanOrEqualTo"}

StringPredicates == {"ContainSubstring", "HavePrefix", "HaveSuffix", "BeErrorWithMessage"}

Predicates ==
    NoArgPredicates \cup AnyPredicates \cup StringPredicates
    \cup {"HaveLen", "TrueFn", "BeErrorOfType"}

\* The operand of a method without parameters.
NoArg == <<>>

DebugCall_NoOpTrueFn(p, a, h, x, stack) ==
    CASE p = "BeNil" -> BeNil(a, h, stack)
      [] p = "NotBeNil" -> NotBeNil(a, h, stack)
      [] p = "TrueFn" -> NoOpTrueFn(a, x)
      [] p = "BeTrue" -> BeTrue(a, h, stack)
      [] p = "BeFalse" -> BeFalse(a, h, stack)
      [] p = "BeEqual" -> BeEqual(a, h, x, stack)
      [] p = "NotBeEqual" -> NotBeEqual(a, h, x, stack)
      [] p = "BeEmpty" -> BeEmpty(a, h, stack)
      [] p = "NotBeEmpty" -> NotBeEmpty(a, h, stack)
      [] p = "HaveLen" -> HaveLen(a, h, x, stack)
      [] p = "Contain" -> Contain(a, h, x, stack)
      [] p = "NotContain" -> NotContain(a, h, x, stack)
      [] p = "ContainSubstring" -> ContainSubstring(a, h, x, stack)
      [] p = "HavePrefix" -> HavePrefix(a, h, x, stack)
      [] p = "HaveSuffix" -> HaveSuffix(a, h, x, stack)
      [] p = "BeZero" -> BeZero(a, h, stack)
      [] p = "NotBeZero" -> NotBeZero(a, h, stack)
      [] p = "BeGreaterThan" -> BeGreaterThan(a, h, x, stack)
      [] p = "BeLessThan" -> BeLessThan(a, h, x, stack)
      [] p = "BeGreaterThanOrEqualTo" -> BeGreaterThanOrEqualTo(a, h, x, stack)
      [] p = "BeLessThanOrEqualTo" -> BeLessThanOrEqualTo(a, h, x, stack)
      [] p = "BeError" -> BeError(a, h, stack)
      [] p = "NotBeError" -> NotBeError(a, h, stack)
      [] p = "BeErrorOfType" -> BeErrorOfType(a, h, x, stack)
      [] p = "BeErrorWithMessage" -> BeErrorWithMessage(a, h, x, stack)

\* One call of a method of the active variant.
DebugCall(p, a, h, x, stack) ==
    CASE p = "BeNil" -> BeNil(a, h, stack)
      [] p = "NotBeNil" -> NotBeNil(a, h, stack)
      [] p = "TrueFn" -> TrueFn(a, h, x, stack)
      [] p = "BeTrue" -> BeTrue(a, h, stack)
      [] p = "BeFalse" -> BeFalse(a, h, stack)
      [] p = "BeEqual" -> BeEqual(a, h, x, stack)
      [] p = "NotBeEqual" -> NotBeEqual(a, h, x, stack)
      [] p = "BeEmpty" -> BeEmpty(a, h, stack)
      [] p = "NotBeEmpty" -> NotBeEmpty(a, h, stack)
      [] p = "HaveLen" -> HaveLen(a, h, x, stack)
      [] p = "Contain" -> Contain(a, h, x, stack)
      [] p = "NotContain" -> NotContain(a, h, x, stack)
      [] p = "ContainSubstring" -> ContainSubstring(a, h, x, stack)
      [] p = "HavePrefix" -> HavePrefix(a, h, x, stack)
      [] p = "HaveSuffix" -> HaveSuffix(a, h, x, stack)
      [] p = "BeZero" -> BeZero(a, h, stack)
      [] p = "NotBeZero" -> NotBeZero(a, h, stack)
      [] p = "BeGreaterThan" -> BeGreaterThan(a, h, x, stack)
      [] p = "BeLessThan" -> BeLessThan(a, h, x, stack)
      [] p = "BeGreaterThanOrEqualTo" -> BeGreaterThanOrEqualTo(a, h, x, stack)
      [] p = "BeLessThanOrEqualTo" -> BeLessThanOrEqualTo(a, h, x, stack)
      [] p = "BeError" -> BeError(a, h, stack)
      [] p = "NotBeError" -> NotBeError(a, h, stack)
      [] p = "BeErrorOfType" -> BeErrorOfType(a, h, x, stack)
      [] p = "BeErrorWithMessage" -> BeErrorWithMessage(a, h, x, stack)

\* One call of a method of the inert variant.
NoOpCall(p, a, x) ==
    CASE p = "BeNil" -> NoOpBeNil(a)
      [] p = "NotBeNil" -> NoOpNotBeNil(a)
      [] p = "TrueFn" -> NoOpTrueFn(a, x)
      [] p = "BeTrue" -> NoOpBeTrue(a)
      [] p = "BeFalse" -> NoOpBeFalse(a)
      [] p = "BeEqual" -> NoOpBeEqual(a, x)
      [] p = "NotBeEqual" -> NoOpNotBeEqual(a, x)
      [] p = "BeEmpty" -> NoOpBeEmpty(a)
      [] p = "NotBeEmpty" -> NoOpNotBeEmpty(a)
      [] p = "HaveLen" -> NoOpHaveLen(a, x)
      [] p = "Contain" -> NoOpContain(a, x)
      [] p = "NotContain" -> NoOpNotContain(a, x)
      [] p = "ContainSubstring" -> NoOpContainSubstring(a, x)
      [] p = "HavePrefix" -> NoOpHavePrefix(a, x)
      [] p = "HaveSuffix" -> NoOpHaveSuffix(a, x)
      [] p = "BeZero" -> NoOpBeZero(a)
      [] p = "NotBeZero" -> NoOpNotBeZero(a)
      [] p = "BeGreaterThan" -> NoOpBeGreaterThan(a, x)
      [] p = "BeLessThan" -> NoOpBeLessThan(a, x)
      [] p = "BeGreaterThanOrEqualTo" -> NoOpBeGreaterThanOrEqualTo(a, x)
      [] p = "BeLessThanOrEqualTo" -> NoOpBeLessThanOrEqualTo(a, x)
      [] p = "BeError" -> NoOpBeError(a)
      [] p = "NotBeError" -> NoOpNotBeError(a)
      [] p = "BeErrorOfType" -> NoOpBeErrorOfType(a, x)
      [] p = "BeErrorWithMessage" -> NoOpBeErrorWithMessage(a, x)

(***************************************************************************)
(* The program: goroutines that write chains Should(v).P1(..)...Pn(..) and *)
(* direct assertions, in a binary built with some choice of the two tags.  *)
(***************************************************************************)
Goroutines == {"main", "worker"}

\* Operands given to the methods that take an `any`, a string, a length and
\* a func() bool, and the formatted messages given to Assertf.
AnyOperands ==
    { Nil, IntV(0), IntV(5), FloatV(19), StrV("string", <<1, 2>>),
      V("slice", "[]int", FALSE, 0, <<>>, FALSE, <<>>),
      V("ptr", "*int", TRUE, 0, <<>>, FALSE, <<>>) }

StringOperands == {<<>>, <<2>>, <<2, 1>>}

LenOperands == {0, 2}

Fns == {Fn(TRUE), Fn(FALSE)}

Messages ==
    { Message(<<"value should be positive">>, <<>>),
      Message(<<"value ", "%d", " is not > 100">>, <<42>>),
      Message(<<"value ", "%d", " > ", "%d">>, <<42, 10>>) }

Operands(p) ==
    CASE p \in NoArgPredicates -> {NoArg}
      [] p \in AnyPredicates -> AnyOperands
      [] p \in StringPredicates -> StringOperands
      [] p = "HaveLen" -> LenOperands
      [] p = "TrueFn" -> Fns
      [] p = "BeErrorOfType" -> Targets

\* Where a chain is written: the file, the line of its first call, and how
\* many lines lie between one call of the chain and the next.
Site(file, line, step) == [file |-> file, line |-> line, step |-> step]

Sites ==
    { Site(<<"/", "home", "/", "app", "/", "main.go">>, 23, 1),
      Site(<<"config.go">>, 91, 0) }

\* The stack of the caller while it makes the k-th call of its chain
\* (Should is the call 0).
UserStack(site, k) ==
    <<Frame("main.main", site.file, site.line + k * site.step),
      Frame("runtime.main", <<"/", "go", "/", "runtime", "/", "proc.go">>, 267)>>

VARIABLES
    tags,    \* the build tags given: [debug, bumert]
    linked,  \* the variants compiled into the binary
    heap,    \* the holders of the active variant, by address
    th,      \* each goroutine's chain
    ex       \* the run of the example program (cmd/example)

vars == <<tags, linked, heap, th, ex>>

Idle ==
    [status |-> "idle", holder |-> <<>>, recv |-> <<>>, given |-> <<>>, site |-> <<>>,
     evaluated |-> 0, returned |-> 0, last |-> [p |-> "", x |-> NoArg],
     panic |-> NoPanic, fnCalls |-> 0, fnGiven |-> 0]

\* The example program is not the program being run.
NotRunning == [pc |-> 0]

Init ==
    /\ tags \in [debug : BOOLEAN, bumert : BOOLEAN]
    /\ linked = Selected(tags.debug, tags.bumert)
    /\ heap = <<>>
    /\ th = [g \in Goroutines |-> Idle]
    /\ ex = NotRunning

\* The binary exists: exactly one definition of each symbol was compiled in.
Built == Cardinality(linked) = 1

Variant == CHOOSE v \in linked : TRUE

Declared(name) == \E sg \in Surface(Variant) : sg.name = name

FreshAddr_Shared(h) == 1

\* new(Assertion): the least address not in use.
FreshAddr(h) ==
    CHOOSE a \in 1..(Cardinality(DOMAIN h) + 1) :
        a \notin DOMAIN h /\ \A b \in 1..(a - 1) : b \in DOMAIN h

\* The heap once the chain of goroutine g is over and its holder is garbage.
Collect(h, g) ==
    LET mine == {th[g].holder[i] : i \in 1..Len(th[g].holder)}
    IN  [b \in DOMAIN h \ mine |-> h[b]]

\* g starts a chain: Should(v), written at site.
CallShould(g, v, site) ==
    /\ th[g].status = "idle"
    /\ Built /\ Declared("Should")
    /\ LET a == IF Variant = "active" THEN FreshAddr(heap) ELSE NoOpShould(v)
       IN  /\ heap' = IF Variant = "active" THEN (a :> Should(v)) @@ heap ELSE heap
           /\ th' = [th EXCEPT ![g] =
                        [Idle EXCEPT !.status = "chain", !.recv = <<a>>,
                                     !.holder = IF Variant = "active" THEN <<a>> ELSE <<>>,
                                     !.given = <<v>>, !.site = site,
                                     !.last = [p |-> "Should", x |-> v]]]
    /\ UNCHANGED <<tags, linked, ex>>

\* g calls the next method of its chain on the handle the last call returned;
\* the chains looked at have at most limit calls after Should.
CallPredicate(g, p, x, limit) ==
    /\ th[g].status = "chain"
    /\ th[g].evaluated < limit
    /\ Built /\ Declared(p)
    /\ LET a == th[g].recv[1]
           k == th[g].evaluated + 1
           o == IF Variant = "active"
                THEN DebugCall(p, a, heap, x, UserStack(th[g].site, k))
                ELSE NoOpCall(p, a, x)
       IN  th' = [th EXCEPT ![g] =
                     [@ EXCEPT !.status = IF o.panic = NoPanic THEN "chain" ELSE "panicked",
                               !.recv = o.ret,
                               !.evaluated = k,
                               !.returned = IF o.panic = NoPanic THEN @ + 1 ELSE @,
                               !.last = [p |-> p, x |-> x],
                               !.panic = o.panic,
                               !.fnCalls = @ + o.calls,
                               !.fnGiven = IF p = "TrueFn" THEN @ + 1 ELSE @]]
    /\ UNCHANGED <<tags, linked, heap, ex>>

\* What a direct assertion leaves in g: it returns nothing.
AfterDirect(name, x, site, o) ==
    [Idle EXCEPT !.status = IF o.panic = NoPanic THEN "returned" ELSE "panicked",
                 !.site = site, !.evaluated = 1,
                 !.returned = IF o.panic = NoPanic THEN 1 ELSE 0,
                 !.last = [p |-> name, x |-> x], !.panic = o.panic]

\* g calls Assert(condition) at site.
CallAssert(g, condition, site) ==
    /\ th[g].status = "idle"
    /\ Built /\ Declared("Assert")
    /\ LET o == IF Variant = "active"
                THEN AssertCondition(condition, UserStack(site, 0))
                ELSE NoOpAssert(condition)
       IN  th' = [th EXCEPT ![g] = AfterDirect("Assert", condition, site, o)]
    /\ UNCHANGED <<tags, linked, heap, ex>>

\* g calls Assertf(condition, format, args...) at site.
CallAssertf(g, condition, message, site) ==
    /\ th[g].status = "idle"
    /\ Built /\ Declared("Assertf")
    /\ LET o == IF Variant = "active"
                THEN Assertf(condition, message, UserStack(site, 0))
                ELSE NoOpAssertf(condition, message)
       IN  th' = [th EXCEPT ![g] =
                     AfterDirect("Assertf", <<condition, message>>, site, o)]
    /\ UNCHANGED <<tags, linked, heap, ex>>

\* The statement is over: the last call returned and its handle is dropped.
EndChain(g) ==
    /\ th[g].status \in {"chain", "returned"}
    /\ heap' = Collect(heap, g)
    /\ th' = [th EXCEPT ![g] = Idle]
    /\ UNCHANGED <<tags, linked, ex>>

\* The caller's deferred recover() takes the panic (the tests' assertPanics).
Recover(g) ==
    /\ th[g].status = "panicked"
    /\ heap' = Collect(heap, g)
    /\ th' = [th EXCEPT ![g] = Idle]
    /\ UNCHANGED <<tags, linked, ex>>

\* One goroutine writing statements of one call each, Should(v).P(x),
\* Assert(c) or Assertf(c, ...), over every value, as the tests do.
Next ==
    \E g \in {"main"} :
        \/ \E v \in Values, site \in Sites : CallShould(g, v, site)
        \/ \E p \in Predicates : \E x \in Operands(p) : CallPredicate(g, p, x, 1)
        \/ \E c \in BOOLEAN, site \in Sites : CallAssert(g, c, site)
        \/ \E c \in BOOLEAN, m \in Messages, site \in Sites : CallAssertf(g, c, m, site)
        \/ EndChain(g)
        \/ Recover(g)

Spec == Init /\ [][Next]_vars

\* The values captured by the chains of several calls: nil, a number, a
\* string, an empty slice, a non-nil and a nil pointer, and an error.
ChainValues ==
    { Nil, IntV(5), StrV("string", <<1, 2>>),
      V("slice", "[]int", FALSE, 0, <<>>, FALSE, <<>>),
      V("ptr", "*int", FALSE, 0, <<>>, FALSE, <<>>),
      V("ptr", "*int", TRUE, 0, <<>>, FALSE, <<>>),
      V("ptr", "*errors.errorString", FALSE, 0, <<1, 2>>, TRUE, <<>>) }

\* One goroutine writing chains of up to MaxChain calls.
NextChain ==
    \E g \in {"main"} :
        \/ \E v \in ChainValues, site \in Sites : CallShould(g, v, site)
        \/ \E p \in Predicates : \E x \in Operands(p) : CallPredicate(g, p, x, MaxChain)
        \/ EndChain(g)
        \/ Recover(g)

SpecChain == Init /\ [][NextChain]_vars

\* One goroutine writing statements Should(v).P(w), P a method that takes an
\* `any`, with v and w over every value.
NextPairs ==
    \E g \in {"main"} :
        \/ \E v \in Values, site \in {s \in Sites : s.step = 1} : CallShould(g, v, site)
        \/ \E p \in AnyPredicates, x \in Values : CallPredicate(g, p, x, 1)
        \/ EndChain(g)
        \/ Recover(g)

SpecPairs == Init /\ [][NextPairs]_vars

\* Both goroutines writing chains of up to MaxChain calls at once, each
\* call a step of its own, over nil, 0 and 5 and the nil and zero tests.
NextThreads ==
    \E g \in Goroutines :
        \/ \E v \in {Nil, IntV(0), IntV(5)}, site \in Sites : CallShould(g, v, site)
        \/ \E p \in {"BeNil", "NotBeNil", "BeZero", "NotBeZero"} :
              CallPredicate(g, p, NoArg, MaxChain)
        \/ EndChain(g)
        \/ Recover(g)

SpecThreads == Init /\ [][NextThreads]_vars

(***************************************************************************)
(* The example program, cmd/example/main.go.  pc is the line of the next   *)
(* statement; a statement that calls the library is one step, its holder   *)
(* made and dropped within it.  The literals main passes to newConfig and  *)
(* gives to shouldFailValue are the inputs lit of a run; main.go's own are *)
(* MainLiterals.                                                           *)
(***************************************************************************)
\* The literals of main: newConfig("localhost", 8080, "admin"),
\* newConfig("", 9000, "guest") and shouldFailValue := 0; "localhost" is the
\* characters <<1, 2>>.
MainLiterals ==
    [host1 |-> <<1, 2>>, port1 |-> 8080, host2 |-> <<>>, port2 |-> 9000, fail |-> 0]

ExampleLiterals ==
    [host1 : {<<1, 2>>, <<>>}, port1 : {8080, 0},
     host2 : {<<1, 2>>, <<>>}, port2 : {9000, -1}, fail : {0, 1}]

\* A *config: nil, or &config{...}.
ConfigPtr(isnil) == V("ptr", "*main.config", isnil, 0, <<>>, FALSE, <<>>)

\* cfg.Tags, []string{"default", "example"}.
Tags == V("slice", "[]string", FALSE, 0, <<<<3, 4>>, <<5, 6>>>>, FALSE, <<>>)

\* errors.New and fmt.Errorf without %w both give an *errors.errorString.
NewError(chars) == V("ptr", "*errors.errorString", FALSE, 0, chars, TRUE, <<>>)

\* ret is what newConfig returned: cfg, err, and err's message for printing.
ExStart(lit) ==
    [pc |-> 52, lit |-> lit, host |-> <<>>, port |-> 0, ra |-> 0,
     ret |-> [cfg |-> ConfigPtr(TRUE), err |-> Nil, msg |-> ""],
     out |-> <<>>, crashed |-> FALSE, panic |-> NoPanic]

\* The statement `bumert.Should(v).p(x)` (or Assert(x)) at line in function
\* fn: the panic that leaves it, or NoPanic.
Statement(fn, line, p, v, x) ==
    LET MainFile ==
            <<"/", "home", "/", "user", "/", "bumert", "/", "cmd", "/", "example", "/",
              "main.go">>
        stack == <<Frame(fn, MainFile, line),
                   Frame("runtime.main", <<"/", "go", "/", "runtime", "/", "proc.go">>, 267)>>
    IN  IF Variant = "inert"
        THEN IF p = "Assert" THEN NoOpAssert(x).panic
             ELSE NoOpCall(p, NoOpShould(v), x).panic
        ELSE IF p = "Assert" THEN AssertCondition(x, stack).panic
        ELSE DebugCall(p, 1, <<Should(v)>>, x, stack).panic

\* The run after a library statement: on to next, or the panic ends it.
After(e, signal, next) ==
    IF signal = NoPanic THEN [e EXCEPT !.pc = next]
    ELSE [e EXCEPT !.crashed = TRUE, !.panic = signal]

Println(e, text, next) == [e EXCEPT !.out = Append(@, text), !.pc = next]

\* newConfig, lines 20-49, from the statement at e.pc.
newConfig(e) ==
    CASE e.pc = 22 -> After(e, Statement("main.newConfig", 22, "Assert", Nil, FALSE), 23)
      [] e.pc = 23 ->
            After(e, Statement("main.newConfig", 23, "NotBeEmpty",
                               StrV("string", e.host), NoArg), 24)
      [] e.pc = 24 ->
            After(e, Statement("main.newConfig", 24, "BeGreaterThan",
                               IntV(e.port), IntV(0)), 27)
      [] e.pc = 27 ->
            IF e.host = <<>>
            THEN [e EXCEPT !.ret = [cfg |-> ConfigPtr(TRUE), err |-> NewError(<<7>>),
                                   msg |-> "host cannot be empty"],
                           !.pc = e.ra]
            ELSE [e EXCEPT !.pc = 31]
      [] e.pc = 31 ->
            IF e.port <= 0
            THEN [e EXCEPT !.ret = [cfg |-> ConfigPtr(TRUE), err |-> NewError(<<8>>),
                                   msg |-> "invalid port: " \o ToString(e.port)],
                           !.pc = e.ra]
            ELSE [e EXCEPT !.pc = 35]
      [] e.pc = 35 -> [e EXCEPT !.ret = [cfg |-> ConfigPtr(FALSE), err |-> Nil, msg |-> ""],
                                     !.pc = 43]
      [] e.pc = 43 ->
            After(e, Statement("main.newConfig", 43, "NotBeNil", e.ret.cfg, NoArg), 44)
      [] e.pc = 44 -> After(e, Statement("main.newConfig", 44, "HaveLen", Tags, 2), 45)
      [] e.pc = 45 ->
            After(e, Statement("main.newConfig", 45, "Contain", Tags,
                               StrV("string", <<5, 6>>)), 48)
      [] e.pc = 48 -> [e EXCEPT !.pc = e.ra]

\* main, lines 51-98, from the statement at e.pc; 98 is its end.
main(e) ==
    CASE e.pc = 52 -> Println(e, "--- Running Example ---", 55)
      [] e.pc = 55 -> Println(e, "Attempting valid configuration...", 56)
      [] e.pc = 56 ->
            [e EXCEPT !.host = e.lit.host1, !.port = e.lit.port1, !.ra = 59, !.pc = 22]
      [] e.pc = 59 ->
            After(e, Statement("main.main", 59, "NotBeError", e.ret.err, NoArg), 62)
      [] e.pc = 62 ->
            IF e.ret.err # Nil
            THEN Println(e, "  Error creating config 1: " \o e.ret.msg, 70)
            ELSE Println(e, "  Config 1 created successfully", 70)
      [] e.pc = 70 ->
            Println(e, "Attempting invalid configuration (empty host)...", 71)
      [] e.pc = 71 ->
            [e EXCEPT !.host = e.lit.host2, !.port = e.lit.port2, !.ra = 74, !.pc = 22]
      [] e.pc = 74 ->
            After(e, Statement("main.main", 74, "BeError", e.ret.err, NoArg), 77)
      [] e.pc = 77 ->
            IF e.ret.err # Nil
            THEN Println(e, "  Error creating config 2: " \o e.ret.msg, 84)
            ELSE Println(e, "  Config 2 created unexpectedly", 84)
      [] e.pc = 84 ->
            Println(e, "Demonstrating a failing assertion (if debug enabled)...", 86)
      [] e.pc = 86 -> Println(e, "  About to assert shouldFailValue > 0...", 91)
      [] e.pc = 91 ->
            After(e, Statement("main.main", 91, "BeGreaterThan",
                               IntV(e.lit.fail), IntV(0)), 95)
      [] e.pc = 95 ->
            Println(e, "  Assertion passed (or was skipped in production build).", 97)
      [] e.pc = 97 -> Println(e, "--- Example Finished ---", 98)

\* The example runs its next statement; a panic ends the run, for main
\* recovers nothing.
ExampleStep ==
    /\ Built
    /\ ex.pc \in 22..97
    /\ ~ex.crashed
    /\ ex' = IF ex.pc < 50 THEN newConfig(ex) ELSE main(ex)
    /\ UNCHANGED <<tags, linked, heap, th>>

InitExample ==
    /\ tags \in [debug : BOOLEAN, bumert : BOOLEAN]
    /\ linked = Selected(tags.debug, tags.bumert)
    /\ heap = <<>>
    /\ th = [g \in Goroutines |-> Idle]
    /\ ex \in {ExStart(lit) : lit \in ExampleLiterals}

NextExample == ExampleStep

SpecExample == InitExample /\ [][NextExample]_vars

(***************************************************************************)
(* Properties.                                                             *)
(***************************************************************************)
Active == linked = {"active"}

Inert == linked = {"inert"}

\* Whether a call of p with operand x on a holder of v returns, run alone.
Passes(p, x, v) ==
    DebugCall(p, 1, <<Should(v)>>, x, UserStack(Site(<<"t.go">>, 1, 0), 1)).panic = NoPanic

\* The pass condition of each method, as its body tests it.
PassCondition(p, x, v) ==
    CASE p = "BeNil" -> isNil(v)
      [] p = "NotBeNil" -> ~isNil(v)
      [] p = "TrueFn" -> x.returns
      [] p = "BeTrue" -> IsBool(v) /\ v.num = 1
      [] p = "BeFalse" -> IsBool(v) /\ v.num # 1
      [] p = "BeEqual" -> DeepEqual(v, x)
      [] p = "NotBeEqual" -> ~DeepEqual(v, x)
      [] p = "BeEmpty" -> isNil(v) \/ (getLength(v)[2] /\ getLength(v)[1] = 0)
      [] p = "NotBeEmpty" -> ~isNil(v) /\ ~(getLength(v)[2] /\ getLength(v)[1] = 0)
      [] p = "HaveLen" -> getLength(v)[2] /\ getLength(v)[1] = x
      [] p = "Contain" ->
            \/ v.kind = "string" /\ IsString(x) /\ Contains(v.elems, x.elems)
            \/ v.kind \in {"slice", "array"}
               /\ \E i \in 1..Len(v.elems) : DeepEqual(ElementAt(v, i), x)
      [] p = "NotContain" ->
            \/ v.kind = "string" /\ IsString(x) /\ ~Contains(v.elems, x.elems)
            \/ v.kind \in {"slice", "array"}
               /\ ~\E i \in 1..Len(v.elems) : DeepEqual(ElementAt(v, i), x)
      [] p = "ContainSubstring" -> IsString(v) /\ Contains(v.elems, x)
      [] p = "HavePrefix" -> IsString(v) /\ HasPrefix(v.elems, x)
      [] p = "HaveSuffix" -> IsString(v) /\ HasSuffix(v.elems, x)
      [] p = "BeZero" -> isZero(v)
      [] p = "NotBeZero" -> ~isZero(v)
      [] p = "BeGreaterThan" ->
            compare(v, x, ">").panic = NoPanic /\ compare(v, x, ">").ok
            /\ compare(v, x, ">").result
      [] p = "BeLessThan" ->
            compare(v, x, "<").panic = NoPanic /\ compare(v, x, "<").ok
            /\ compare(v, x, "<").result
      [] p = "BeGreaterThanOrEqualTo" ->
            compare(v, x, ">=").panic = NoPanic /\ compare(v, x, ">=").ok
            /\ compare(v, x, ">=").result
      [] p = "BeLessThanOrEqualTo" ->
            compare(v, x, "<=").panic = NoPanic /\ compare(v, x, "<=").ok
            /\ compare(v, x, "<=").result
      [] p = "BeError" -> ~isNil(v) /\ IsError(v)
      [] p = "NotBeError" -> isNil(v) \/ ~IsError(v)
      [] p = "BeErrorOfType" ->
            IsError(v) /\ ~isNil(v) /\ x.kind = "ptr" /\ ~x.isNil
            /\ errorsAs(v, x).panic = NoPanic /\ errorsAs(v, x).found
      [] p = "BeErrorWithMessage" ->
            IsError(v) /\ ~isNil(v) /\ Contains(ErrorText(v), x)

\* The payload is "<caller>: assertion failed: <message>".
IsAssertionFailure(payload) ==
    payload.type = "string" /\ Len(payload.text) >= 3
    /\ payload.text[2] = ": assertion failed: "

\* The payload is "internal bumert error: ...".
IsUsageError(payload) ==
    payload.type = "string" /\ Len(payload.text) >= 2
    /\ payload.text[1] = "internal bumert error: "

\* "<file>:<line>" of the k-th call of the chain written at site, the file
\* by its last segment.
CallSite(site, k) ==
    site.file[Len(site.file)] \o ":" \o ToString(site.line + k * site.step)

\* The place in its statement of the last call g made.
LastCallIndex(g) ==
    IF th[g].last.p \in {"Assert", "Assertf"} THEN 0 ELSE th[g].evaluated

\* C1: in the inert variant no call ever raises, every method returns the
\* handle it was called on, and that handle is the one shared holder that
\* Should returns for every value; every chain runs to its end.
C1_InertNeverRaises ==
    \A g \in Goroutines :
        Inert =>
            /\ th[g].status # "panicked"
            /\ th[g].panic = NoPanic
            /\ th[g].returned = th[g].evaluated
            /\ th[g].status = "chain" => th[g].recv = <<NoOpAddr>>

C1_Witness ==
    /\ Inert
    /\ th["main"].status = "chain"
    /\ th["main"].evaluated = 2
    /\ th["main"].last.p = "BeErrorOfType"
    /\ th["main"].last.x = NilTarget
    /\ th["main"].given = <<V("ptr", "*int", FALSE, 0, <<>>, FALSE, <<>>)>>

\* C2: in the active variant a chain stops at its first call whose pass
\* condition is false: every call before it returned, the signal is the one
\* that call raises, no later call is evaluated, and a function given to
\* TrueFn is invoked only when its TrueFn is reached.
C2_FailFast ==
    \A g \in Goroutines :
        Active /\ th[g].last.p \in Predicates =>
            /\ th[g].status = "chain" =>
                  /\ th[g].returned = th[g].evaluated
                  /\ PassCondition(th[g].last.p, th[g].last.x, th[g].given[1])
            /\ th[g].status = "panicked" =>
                  /\ th[g].returned = th[g].evaluated - 1
                  /\ ~PassCondition(th[g].last.p, th[g].last.x, th[g].given[1])
                  /\ th[g].panic =
                        DebugCall(th[g].last.p, 1, <<Should(th[g].given[1])>>,
                                  th[g].last.x,
                                  UserStack(th[g].site, th[g].evaluated)).panic
            /\ th[g].fnCalls = th[g].fnGiven

C2_Witness ==
    /\ Active
    /\ th["main"].status = "panicked"
    /\ th["main"].evaluated = 2
    /\ th["main"].returned = 1
    /\ th["main"].last.p = "BeNil"
    /\ th["main"].fnCalls = 1

\* C3: in the active variant a method that passes returns the holder it was
\* called on, and whatever calls were made the holder carries the value that
\* was given to Should.
C3_HolderUnchanged ==
    \A g \in Goroutines :
        Active /\ th[g].holder # <<>> =>
            /\ th[g].holder[1] \in DOMAIN heap
            /\ heap[th[g].holder[1]].value = th[g].given[1]
            /\ th[g].status = "chain" => th[g].recv = th[g].holder

C3_Witness ==
    /\ Active
    /\ th["main"].status = "chain"
    /\ th["main"].evaluated = 2
    /\ th["main"].last.p = "BeNil"
    /\ th["main"].recv = th["main"].holder

\* C4: an assertion failure's payload starts with the file (last segment)
\* and line of the statement that called the failing method or function,
\* which is not the line of Should when the chain runs over several lines.
C4_CallerLocation ==
    \A g \in Goroutines :
        th[g].status = "panicked" /\ IsAssertionFailure(th[g].panic) =>
            th[g].panic.text[1] = CallSite(th[g].site, LastCallIndex(g))

C4_Witness ==
    /\ th["main"].status = "panicked"
    /\ IsAssertionFailure(th["main"].panic)
    /\ th["main"].last.p = "BeErrorWithMessage"
    /\ th["main"].site.step = 1
    /\ th["main"].panic.text[1] = "main.go:24"

\* C5: in the active variant a method either returns or raises a string the
\* library built, an assertion failure or the usage error.
C5_Total ==
    \A g \in Goroutines :
        th[g].status = "panicked" =>
            IsAssertionFailure(th[g].panic) \/ IsUsageError(th[g].panic)

\* C6: whatever the tags, exactly one variant is compiled in: the active one
\* when debug or bumert is set, the inert one when neither is.
C6_ExactlyOneVariant ==
    /\ Cardinality(linked) = 1
    /\ Active <=> (tags.debug \/ tags.bumert)
    /\ Inert <=> (~tags.debug /\ ~tags.bumert)

C6_Witness ==
    /\ tags.bumert /\ ~tags.debug
    /\ Active
    /\ th["main"].status = "panicked"

\* C7: the two variants declare the same functions and methods with the same
\* parameters and results, so a call that compiles against the variant
\* compiled in compiles against the other.
C7_SameSurface ==
    /\ DebugSurface = NoOpSurface
    /\ \A g \in Goroutines :
          th[g].last.p # "" =>
              \E sg \in DebugSurface : sg.name = th[g].last.p /\ sg \in NoOpSurface

C7_Witness ==
    /\ Inert
    /\ th["main"].last.p = "BeErrorWithMessage"
    /\ th["main"].status = "chain"

\* C8: for every value exactly one of BeNil and NotBeNil passes.
C8_NilComplement ==
    \A g \in Goroutines :
        Active /\ th[g].evaluated = 1 =>
            /\ th[g].last.p = "BeNil" =>
                  ((th[g].status = "chain") <=> ~Passes("NotBeNil", NoArg, th[g].given[1]))
            /\ th[g].last.p = "NotBeNil" =>
                  ((th[g].status = "chain") <=> ~Passes("BeNil", NoArg, th[g].given[1]))

C8_Witness ==
    /\ Active
    /\ th["main"].last.p = "NotBeNil"
    /\ th["main"].status = "panicked"
    /\ th["main"].given = <<V("ptr", "*int", TRUE, 0, <<>>, FALSE, <<>>)>>

\* C9: BeNil passes exactly for the untyped nil and for a nil channel,
\* function, interface, map, pointer or slice; never for a value of another
\* kind, zero or not.
C9_Nilness ==
    \A g \in Goroutines :
        Active /\ th[g].evaluated = 1 /\ th[g].last.p = "BeNil" =>
            LET v == th[g].given[1]
            IN  (th[g].status = "chain") <=>
                    \/ v.kind = "invalid"
                    \/ /\ v.kind \in {"chan", "func", "interface", "map", "ptr", "slice"}
                       /\ v.isNil

C9_Witness ==
    /\ Active
    /\ th["main"].last.p = "BeNil"
    /\ th["main"].status = "panicked"
    /\ th["main"].given = <<V("struct", "comparableStruct", FALSE, 0, <<0, 0>>, FALSE, <<>>)>>

\* C10: a non-nil slice or map of length 0 is empty but not zero; a nil
\* slice or map is both; a slice or map is zero exactly when it is nil.
C10_EmptyVsZero ==
    \A g \in Goroutines :
        Active /\ th[g].evaluated = 1 /\ th[g].last.p \in Predicates
        /\ th[g].given[1].kind \in {"slice", "map"} =>
            LET v == th[g].given[1]
                passed == th[g].status = "chain"
            IN  /\ th[g].last.p = "BeEmpty" /\ Len(v.elems) = 0 => passed
                /\ th[g].last.p = "BeZero" => (passed <=> v.isNil)
                /\ th[g].last.p = "NotBeZero" => (passed <=> ~v.isNil)

C10_Witness ==
    /\ Active
    /\ th["main"].last.p = "BeZero"
    /\ th["main"].status = "panicked"
    /\ th["main"].given = <<V("map", "map[int]int", FALSE, 0, <<>>, FALSE, <<>>)>>

\* Whether the last call g made returned.
Passed(g) == th[g].status = "chain"

\* C11, as stated: Should(v).BeEqual(v) passes for every value v, a non-nil
\* function and a floating-point not-a-number included.
C11_Reflexive ==
    \A g \in Goroutines :
        Active /\ th[g].evaluated = 1 /\ th[g].last.p = "BeEqual"
        /\ th[g].last.x = th[g].given[1] => Passed(g)

\* C11, amended: Should(v).BeEqual(v) passes for every value v that is not a
\* non-nil function and not a floating-point not-a-number.
C11_ReflexiveButFuncNaN ==
    \A g \in Goroutines :
        Active /\ th[g].evaluated = 1 /\ th[g].last.p = "BeEqual"
        /\ th[g].last.x = th[g].given[1]
        /\ ~(th[g].given[1].kind = "func" /\ ~th[g].given[1].isNil)
        /\ ~(th[g].given[1].kind \in FloatKinds /\ th[g].given[1].nan) => Passed(g)

C11_Witness ==
    /\ Active
    /\ th["main"].last.p = "BeEqual"
    /\ th["main"].given = <<V("slice", "[]int", FALSE, 0, <<1, 2>>, FALSE, <<>>)>>
    /\ th["main"].last.x = th["main"].given[1]
    /\ Passed("main")

\* C12: for every value v and operand w exactly one of BeEqual(w) and
\* NotBeEqual(w) passes; nil equals nil, a typed nil pointer equals a typed
\* nil pointer of its type, and nil does not equal a non-nil empty slice.
C12_EqualComplement ==
    \A g \in Goroutines :
        Active /\ th[g].evaluated = 1 =>
            LET v == th[g].given[1]
                w == th[g].last.x
                nilPtr == V("ptr", "*int", TRUE, 0, <<>>, FALSE, <<>>)
                empty == V("slice", "[]int", FALSE, 0, <<>>, FALSE, <<>>)
            IN  /\ th[g].last.p = "BeEqual" =>
                      /\ Passed(g) <=> ~Passes("NotBeEqual", w, v)
                      /\ v = Nil /\ w = Nil => Passed(g)
                      /\ v = nilPtr /\ w = nilPtr => Passed(g)
                      /\ v = Nil /\ w = empty => ~Passed(g)
                /\ th[g].last.p = "NotBeEqual" =>
                      /\ Passed(g) <=> ~Passes("BeEqual", w, v)
                      /\ v = Nil /\ w = empty => Passed(g)

C12_Witness ==
    /\ Active
    /\ th["main"].last.p = "NotBeEqual"
    /\ th["main"].given = <<Nil>>
    /\ th["main"].last.x = V("slice", "[]int", FALSE, 0, <<>>, FALSE, <<>>)
    /\ Passed("main")

\* C13, as stated: for all numeric a and b, of the same or of different
\* numeric types, BeGreaterThan(b) passes iff BeLessThanOrEqualTo(b) fails,
\* and BeLessThan(b) passes iff BeGreaterThanOrEqualTo(b) fails.
C13_OrderingComplement ==
    \A g \in Goroutines :
        Active /\ th[g].evaluated = 1 /\ th[g].last.p \in AnyPredicates
        /\ isNumeric(th[g].given[1].kind) /\ isNumeric(th[g].last.x.kind) =>
            LET a == th[g].given[1]
                b == th[g].last.x
            IN  /\ th[g].last.p = "BeGreaterThan" =>
                      (Passed(g) <=> ~Passes("BeLessThanOrEqualTo", b, a))
                /\ th[g].last.p = "BeLessThanOrEqualTo" =>
                      (Passed(g) <=> ~Passes("BeGreaterThan", b, a))
                /\ th[g].last.p = "BeLessThan" =>
                      (Passed(g) <=> ~Passes("BeGreaterThanOrEqualTo", b, a))
                /\ th[g].last.p = "BeGreaterThanOrEqualTo" =>
                      (Passed(g) <=> ~Passes("BeLessThan", b, a))

\* C13, amended: the same for all numeric a and b neither of which is a
\* floating-point not-a-number.
C13_OrderingComplementNoNaN ==
    \A g \in Goroutines :
        Active /\ th[g].evaluated = 1 /\ th[g].last.p \in AnyPredicates
        /\ isNumeric(th[g].given[1].kind) /\ isNumeric(th[g].last.x.kind)
        /\ ~th[g].given[1].nan /\ ~th[g].last.x.nan =>
            LET a == th[g].given[1]
                b == th[g].last.x
            IN  /\ th[g].last.p = "BeGreaterThan" =>
                      (Passed(g) <=> ~Passes("BeLessThanOrEqualTo", b, a))
                /\ th[g].last.p = "BeLessThanOrEqualTo" =>
                      (Passed(g) <=> ~Passes("BeGreaterThan", b, a))
                /\ th[g].last.p = "BeLessThan" =>
                      (Passed(g) <=> ~Passes("BeGreaterThanOrEqualTo", b, a))
                /\ th[g].last.p = "BeGreaterThanOrEqualTo" =>
                      (Passed(g) <=> ~Passes("BeLessThan", b, a))

C13_Witness ==
    /\ Active
    /\ th["main"].last.p = "BeLessThanOrEqualTo"
    /\ th["main"].given = <<V("uint8", "uint8", FALSE, 7, <<>>, FALSE, <<>>)>>
    /\ th["main"].last.x = FloatV(19)
    /\ Passed("main")

OrderingPredicates ==
    {"BeGreaterThan", "BeLessThan", "BeGreaterThanOrEqualTo", "BeLessThanOrEqualTo"}

\* C14: an ordering method whose captured value or operand is not numeric
\* (nil included, on either side) fails with the assertion failure
\* "<Predicate> requires comparable numeric types"; it never passes and
\* never raises anything else.
C14_NonNumeric ==
    \A g \in Goroutines :
        Active /\ th[g].evaluated = 1 /\ th[g].last.p \in OrderingPredicates
        /\ (~isNumeric(th[g].given[1].kind) \/ ~isNumeric(th[g].last.x.kind)) =>
            /\ th[g].status = "panicked"
            /\ IsAssertionFailure(th[g].panic)
            /\ Len(th[g].panic.text) >= 4
            /\ th[g].panic.text[3] = th[g].last.p
            /\ th[g].panic.text[4] = " requires comparable numeric types"

\* The nil-ness test and the length test, as the claims word them.
NilByTest(v) ==
    \/ v.kind = "invalid"
    \/ v.kind \in {"chan", "func", "interface", "map", "ptr", "slice"} /\ v.isNil

LengthTestable(v) == v.kind \in {"slice", "array", "map", "chan", "string"}

\* C15: exactly one of BeEmpty and NotBeEmpty passes; BeEmpty passes iff the
\* value is nil by the nil-ness test or is length-testable with length 0, and
\* otherwise fails with "should be empty, but got length n" when the value
\* is length-testable and with the non-length-testable diagnostic when it is
\* not (as the integer 0 and the empty struct, for which NotBeEmpty passes).
C15_Emptiness ==
    \A g \in Goroutines :
        Active /\ th[g].evaluated = 1 /\ th[g].last.p \in {"BeEmpty", "NotBeEmpty"} =>
            LET v == th[g].given[1]
                empty == NilByTest(v) \/ (LengthTestable(v) /\ Len(v.elems) = 0)
            IN  /\ th[g].last.p = "BeEmpty" =>
                      /\ Passed(g) <=> empty
                      /\ Passed(g) <=> ~Passes("NotBeEmpty", NoArg, v)
                      /\ ~Passed(g) =>
                            /\ IsAssertionFailure(th[g].panic)
                            /\ IF LengthTestable(v)
                               THEN /\ th[g].panic.text[3] = "should be empty, but got length "
                                    /\ th[g].panic.text[4] = ToString(Len(v.elems))
                               ELSE th[g].panic.text[3] =
                                      "should be empty, but got non-nil, non-length-testable value: "
                /\ th[g].last.p = "NotBeEmpty" =>
                      /\ Passed(g) <=> ~empty
                      /\ Passed(g) <=> ~Passes("BeEmpty", NoArg, v)
                      /\ v \in {IntV(0), V("struct", "struct {}", FALSE, 0, <<>>, FALSE, <<>>)}
                            => Passed(g)

C15_Witness ==
    /\ Active
    /\ th["main"].last.p = "BeEmpty"
    /\ th["main"].given = <<IntV(0)>>
    /\ th["main"].status = "panicked"
    /\ th["main"].panic.text[3] =
          "should be empty, but got non-nil, non-length-testable value: "

\* C16: HaveLen(n) passes iff the value is a slice, array, map, channel or
\* string whose length is n; a typed nil slice or map has length 0; nil,
\* pointers, numbers and structs are reported as non-length-testable for
\* every n, 0 included, never as a length mismatch.
C16_HaveLen ==
    \A g \in Goroutines :
        Active /\ th[g].evaluated = 1 /\ th[g].last.p = "HaveLen" =>
            LET v == th[g].given[1]
                n == th[g].last.x
            IN  /\ Passed(g) <=> (LengthTestable(v) /\ Len(v.elems) = n)
                /\ v.kind \in {"slice", "map"} /\ v.isNil /\ n = 0 => Passed(g)
                /\ ~LengthTestable(v) =>
                      /\ th[g].status = "panicked"
                      /\ IsAssertionFailure(th[g].panic)
                      /\ th[g].panic.text[3] =
                            "should have length, but got non-length-testable value: "
                /\ LengthTestable(v) /\ ~Passed(g) =>
                      /\ IsAssertionFailure(th[g].panic)
                      /\ th[g].panic.text[3] = "should have length "
                      /\ th[g].panic.text[4] = ToString(n)
                      /\ th[g].panic.text[6] = ToString(Len(v.elems))

C16_Witness ==
    /\ Active
    /\ th["main"].last.p = "HaveLen"
    /\ th["main"].last.x = 0
    /\ th["main"].given = <<Nil>>
    /\ th["main"].status = "panicked"
    /\ th["main"].panic.text[3] =
          "should have length, but got non-length-testable value: "

\* e is a run of consecutive characters of str.
IsSubstring(e, str) ==
    \E i \in 1..(Len(str) + 1), j \in 0..Len(str) : SubSeq(str, i, j) = e

\* C17: on a slice or array (any operand), and on a string with an operand
\* of type string, exactly one of Contain(e) and NotContain(e) passes,
\* Contain iff some element deeply equals e (iff e is a substring); on a
\* string with another operand both fail as wrong operand type; on every
\* other kind both fail with "requires slice, array, or string".
C17_Containment ==
    \A g \in Goroutines :
        Active /\ th[g].evaluated = 1 /\ th[g].last.p \in {"Contain", "NotContain"} =>
            LET v == th[g].given[1]
                e == th[g].last.x
                p == th[g].last.p
                other == IF p = "Contain" THEN "NotContain" ELSE "Contain"
                has == IF v.kind = "string" THEN IsSubstring(e.elems, v.elems)
                       ELSE \E i \in 1..Len(v.elems) : e = IntV(v.elems[i])
            IN  IF v.kind \in {"slice", "array"} \/ (v.kind = "string" /\ e.type = "string")
                THEN /\ Passed(g) <=> (IF p = "Contain" THEN has ELSE ~has)
                     /\ Passed(g) <=> ~Passes(other, e, v)
                     /\ ~Passed(g) => IsAssertionFailure(th[g].panic)
                ELSE /\ th[g].status = "panicked"
                     /\ ~Passes(other, e, v)
                     /\ IsAssertionFailure(th[g].panic)
                     /\ th[g].panic.text[3] =
                           IF v.kind = "string"
                           THEN p \o " expected a string element for string value, got "
                           ELSE p \o " requires slice, array, or string, got "

C17_Witness ==
    /\ Active
    /\ th["main"].last.p = "Contain"
    /\ th["main"].given = <<V("array", "[2]int", FALSE, 0, <<0, 0>>, FALSE, <<>>)>>
    /\ th["main"].last.x = IntV(0)
    /\ Passed("main")

\* C18: BeTrue passes iff the value is the bool true and BeFalse iff it is
\* the bool false; at most one of the two passes, and for a value that is
\* not a bool (nil, an integer, a string) both fail.
C18_Booleans ==
    \A g \in Goroutines :
        Active /\ th[g].evaluated = 1 /\ th[g].last.p \in {"BeTrue", "BeFalse"} =>
            LET v == th[g].given[1]
                true == V("bool", "bool", FALSE, 1, <<>>, FALSE, <<>>)
                false == V("bool", "bool", FALSE, 0, <<>>, FALSE, <<>>)
            IN  /\ th[g].last.p = "BeTrue" =>
                      /\ Passed(g) <=> v = true
                      /\ Passed(g) => ~Passes("BeFalse", NoArg, v)
                /\ th[g].last.p = "BeFalse" =>
                      /\ Passed(g) <=> v = false
                      /\ Passed(g) => ~Passes("BeTrue", NoArg, v)
                /\ v.type # "bool" =>
                      /\ th[g].status = "panicked"
                      /\ IsAssertionFailure(th[g].panic)
                      /\ ~Passes("BeTrue", NoArg, v) /\ ~Passes("BeFalse", NoArg, v)

C18_Witness ==
    /\ Active
    /\ th["main"].last.p = "BeFalse"
    /\ th["main"].given = <<IntV(0)>>
    /\ th["main"].status = "panicked"
    /\ IsAssertionFailure(th["main"].panic)

\* C19: exactly one of BeError and NotBeError passes; BeError passes iff the
\* value is not nil by the nil-ness test and implements error; NotBeError
\* passes iff it is nil (a typed nil pointer of an error type included) or
\* does not implement error.
C19_ErrorComplement ==
    \A g \in Goroutines :
        Active /\ th[g].evaluated = 1 /\ th[g].last.p \in {"BeError", "NotBeError"} =>
            LET v == th[g].given[1]
            IN  /\ th[g].last.p = "BeError" =>
                      /\ Passed(g) <=> (~NilByTest(v) /\ v.isErr)
                      /\ Passed(g) <=> ~Passes("NotBeError", NoArg, v)
                /\ th[g].last.p = "NotBeError" =>
                      /\ Passed(g) <=> (NilByTest(v) \/ ~v.isErr)
                      /\ Passed(g) <=> ~Passes("BeError", NoArg, v)
                /\ ~Passed(g) => IsAssertionFailure(th[g].panic)

C19_Witness ==
    /\ Active
    /\ th["main"].last.p = "NotBeError"
    /\ th["main"].given = <<V("ptr", "*os.PathError", TRUE, 0, <<>>, TRUE, <<>>)>>
    /\ Passed("main")

\* C20: BeErrorOfType looks at the value first, then at the target: a value
\* that is not a non-nil error gives the assertion failure "should be a
\* non-nil error" whatever the target; the usage error, which starts with
\* "internal bumert error" and holds no "assertion failed", is raised only
\* for a non-nil error with a target that is nil or not a pointer.
C20_CheckOrder ==
    \A g \in Goroutines :
        Active /\ th[g].evaluated = 1 /\ th[g].last.p = "BeErrorOfType" =>
            LET v == th[g].given[1]
                t == th[g].last.x
                isError == v.isErr /\ ~NilByTest(v)
                badTarget == t.kind # "ptr" \/ t.isNil
                sig == th[g].panic
            IN  /\ ~isError =>
                      /\ th[g].status = "panicked"
                      /\ IsAssertionFailure(sig)
                      /\ sig.text[3] = "should be a non-nil error, but got: "
                /\ isError /\ badTarget =>
                      /\ th[g].status = "panicked"
                      /\ IsUsageError(sig)
                /\ IsUsageError(sig) =>
                      /\ isError /\ badTarget
                      /\ ~IsAssertionFailure(sig)
                      /\ \A i \in 1..Len(sig.text) : sig.text[i] # ": assertion failed: "

C20_Witness ==
    /\ Active
    /\ th["main"].last.p = "BeErrorOfType"
    /\ th["main"].last.x = NilTarget
    /\ th["main"].given = <<IntV(5)>>
    /\ th["main"].status = "panicked"
    /\ IsAssertionFailure(th["main"].panic)

\* C21: the outcome of TrueFn(f) depends on f alone: whatever value the
\* chain captured (nil included) it passes iff f returns true, and otherwise
\* fails with "function returned false"; any two captured values give the
\* same outcome.
C21_TrueFnIgnoresValue ==
    \A g \in Goroutines :
        Active /\ th[g].evaluated = 1 /\ th[g].last.p = "TrueFn" =>
            /\ Passed(g) <=> th[g].last.x.returns
            /\ \A v2 \in Values : Passes("TrueFn", th[g].last.x, v2) <=> Passed(g)
            /\ ~Passed(g) =>
                  /\ IsAssertionFailure(th[g].panic)
                  /\ SubSeq(th[g].panic.text, 3, Len(th[g].panic.text))
                        = <<"function returned false">>

C21_Witness ==
    /\ Active
    /\ th["main"].last.p = "TrueFn"
    /\ th["main"].last.x = Fn(TRUE)
    /\ th["main"].given = <<Nil>>
    /\ Passed("main")

\* The text of a payload after "<caller>: assertion failed: ".
Diagnostic(payload) == SubSeq(payload.text, 3, Len(payload.text))

\* C22: in the active variant Assert(c) and Assertf(c, format, args...)
\* raise iff c is false, Assert with "condition was false" and Assertf with
\* the formatted message, and return without effect when c is true; in the
\* inert variant both return for every c, format and args.
C22_DirectAssertions ==
    \A g \in Goroutines :
        th[g].last.p \in {"Assert", "Assertf"} =>
            LET c == IF th[g].last.p = "Assert" THEN th[g].last.x ELSE th[g].last.x[1]
                sig == th[g].panic
            IN  /\ heap = <<>>
                /\ Inert => th[g].status = "returned" /\ sig = NoPanic
                /\ Active =>
                      /\ (th[g].status = "panicked") <=> ~c
                      /\ c => th[g].status = "returned" /\ sig = NoPanic
                      /\ ~c => IsAssertionFailure(sig)
                      /\ ~c /\ th[g].last.p = "Assert" =>
                            Diagnostic(sig) = <<"condition was false">>
                      /\ ~c /\ th[g].last.p = "Assertf" =>
                            LET m == th[g].last.x[2]
                            IN  /\ m = Message(<<"value should be positive">>, <<>>) =>
                                      Join(Diagnostic(sig)) = "value should be positive"
                                /\ m = Message(<<"value ", "%d", " is not > 100">>, <<42>>) =>
                                      Join(Diagnostic(sig)) = "value 42 is not > 100"
                                /\ m = Message(<<"value ", "%d", " > ", "%d">>, <<42, 10>>) =>
                                      Join(Diagnostic(sig)) = "value 42 > 10"

C22_Witness ==
    /\ Active
    /\ th["main"].last.p = "Assertf"
    /\ th["main"].last.x = <<FALSE, Message(<<"value ", "%d", " is not > 100">>, <<42>>)>>
    /\ th["main"].status = "panicked"

\* C23: built with the active variant, the example prints "Config 1 created
\* successfully" and "Error creating config 2", and the only assertion that
\* fails is the last one, Should(shouldFailValue).BeGreaterThan(0), with
\* "should be greater than 0, but got 0".
C23_ExampleDebugRun ==
    Active /\ ex.pc # 0 /\ ex.lit = MainLiterals /\ ex.crashed =>
        /\ ex.pc = 91
        /\ Join(Diagnostic(ex.panic)) = "should be greater than 0, but got 0"
        /\ \E i \in 1..Len(ex.out) : ex.out[i] = "  Config 1 created successfully"
        /\ \E i \in 1..Len(ex.out) :
              ex.out[i] = "  Error creating config 2: host cannot be empty"

\* C24: when the captured value is a non-nil error, the target is a non-nil
\* pointer that errors.As accepts, and nothing on the unwrap chain matches,
\* BeErrorOfType fails with the assertion failure "error type should be
\* <type> (or wrap it), ..." for every shape of target; building the type
\* name raises no other signal.
C24_NoMatchDiagnostic ==
    \A g \in Goroutines :
        Active /\ th[g].evaluated = 1 /\ th[g].last.p = "BeErrorOfType" =>
            LET v == th[g].given[1]
                t == th[g].last.x
                sig == th[g].panic
            IN  /\ v.isErr /\ ~NilByTest(v)
                /\ t.kind = "ptr" /\ ~t.isNil
                /\ t.elemKind = "interface" \/ t.elemIsErr
                /\ ChainTypes(v) \cap t.assignable = {}
                => /\ th[g].status = "panicked"
                   /\ IsAssertionFailure(sig)
                   /\ sig.text[3] = "error type should be "
                   /\ sig.text[5] = " (or wrap it)"

\* C25: TrueFn(f) invokes f exactly once in the active variant, whether f
\* returns true or false, and the inert variant never invokes a function
\* the caller supplied.
C25_FnInvocations ==
    \A g \in Goroutines :
        /\ Active => th[g].fnCalls = th[g].fnGiven
        /\ Inert => th[g].fnCalls = 0
        /\ th[g].last.p = "TrueFn" /\ th[g].evaluated = 1 =>
              th[g].fnCalls = IF Active THEN 1 ELSE 0

C25_Witness ==
    /\ Active
    /\ th["main"].last.p = "TrueFn"
    /\ th["main"].last.x = Fn(FALSE)
    /\ th["main"].status = "panicked"
    /\ th["main"].fnGiven = 2
    /\ th["main"].fnCalls = 2

\* How an ordering method ended: it passed, it failed because the relation
\* is false, it failed because the pair is not comparable, or it raised
\* something that is not an assertion failure.
OrderingOutcome(sig) ==
    IF sig = NoPanic THEN "pass"
    ELSE IF ~IsAssertionFailure(sig) THEN "other signal"
    ELSE IF sig.text[4] = " requires comparable numeric types" THEN "not comparable"
    ELSE "relation false"

Swapped(p) ==
    CASE p = "BeGreaterThan" -> "BeLessThan"
      [] p = "BeLessThan" -> "BeGreaterThan"
      [] p = "BeGreaterThanOrEqualTo" -> "BeLessThanOrEqualTo"
      [] p = "BeLessThanOrEqualTo" -> "BeGreaterThanOrEqualTo"

\* C26: for every a and b, Should(a).BeGreaterThan(b) and
\* Should(b).BeLessThan(a) end the same way, both passing, both failing
\* because the relation is false, or both failing as not comparable, and
\* likewise BeGreaterThanOrEqualTo and BeLessThanOrEqualTo.
C26_SwapSymmetry ==
    \A g \in Goroutines :
        Active /\ th[g].evaluated = 1 /\ th[g].last.p \in OrderingPredicates
        /\ th[g].status \in {"chain", "panicked"} =>
            LET a == th[g].given[1]
                b == th[g].last.x
                other == DebugCall(Swapped(th[g].last.p), 1, <<Should(b)>>, a,
                                   UserStack(th[g].site, 1)).panic
            IN  /\ OrderingOutcome(th[g].panic) = OrderingOutcome(other)
                /\ OrderingOutcome(th[g].panic)
                      \in {"pass", "relation false", "not comparable"}

\* a < b for two integers of one type, by their numbers.
IntegerLess(a, b) == a.big < b.big \/ (a.big = b.big /\ a.num < b.num)

\* C27: when the captured value and the operand have the identical signed
\* or unsigned integer type, the ordering predicates decide by exact integer
\* comparison, so two distinct integers of one type are never treated as
\* equal, however large; only operands of different types are widened to
\* float64.
C27_ExactIntegers ==
    \A g \in Goroutines :
        Active /\ th[g].evaluated = 1 /\ th[g].last.p \in OrderingPredicates
        /\ th[g].status \in {"chain", "panicked"}
        /\ th[g].given[1].kind \in SignedKinds \cup UnsignedKinds
        /\ th[g].given[1].type = th[g].last.x.type =>
            LET a == th[g].given[1]
                b == th[g].last.x
                p == th[g].last.p
            IN  /\ p = "BeGreaterThan" => (Passed(g) <=> IntegerLess(b, a))
                /\ p = "BeLessThan" => (Passed(g) <=> IntegerLess(a, b))
                /\ p = "BeGreaterThanOrEqualTo" => (Passed(g) <=> ~IntegerLess(a, b))
                /\ p = "BeLessThanOrEqualTo" => (Passed(g) <=> ~IntegerLess(b, a))
                /\ a # b => ~(/\ Passes("BeGreaterThanOrEqualTo", b, a)
                              /\ Passes("BeLessThanOrEqualTo", b, a))

C27_Witness ==
    /\ Active
    /\ th["main"].last.p = "BeGreaterThan"
    /\ th["main"].given = <<Above2p53(V("int64", "int64", FALSE, 1, <<>>, FALSE, <<>>))>>
    /\ th["main"].last.x = Above2p53(V("int64", "int64", FALSE, 0, <<>>, FALSE, <<>>))
    /\ Passed("main")
    /\ ~Passes("BeGreaterThan", Above2p53(FloatV(0)), th["main"].given[1])

\* C28: for every captured value of kind string, of the plain string type
\* or of a named type, and every string s, Contain(s) passes iff
\* ContainSubstring(s) passes, and ContainSubstring, HavePrefix and
\* HaveSuffix take the value as a string as Contain does: none of them
\* fails with "requires a string value".
C28_SameStrings ==
    \A g \in Goroutines :
        Active /\ th[g].evaluated = 1 /\ th[g].last.p \in Predicates
        /\ th[g].given[1].kind = "string" =>
            LET v == th[g].given[1]
                p == th[g].last.p
                x == th[g].last.x
            IN  /\ p = "Contain" /\ IsString(x) =>
                      (Passed(g) <=> Passes("ContainSubstring", x.elems, v))
                /\ p \in {"ContainSubstring", "HavePrefix", "HaveSuffix"} =>
                      \/ Passed(g)
                      \/ Diagnostic(th[g].panic)[1] # p \o " requires a string value, got "

\* C29: for every captured value for which BeNil passes, BeZero and BeEmpty
\* pass and NotBeZero and NotBeEmpty fail; the converse does not hold, for
\* 0, "" and a zero struct are zero and not nil.
C29_NilImpliesZeroAndEmpty ==
    \A g \in Goroutines :
        Active /\ th[g].evaluated = 1
        /\ th[g].last.p \in {"BeZero", "BeEmpty", "NotBeZero", "NotBeEmpty"} =>
            LET v == th[g].given[1]
                p == th[g].last.p
            IN  /\ Passes("BeNil", NoArg, v) /\ p \in {"BeZero", "BeEmpty"} => Passed(g)
                /\ Passes("BeNil", NoArg, v) /\ p \in {"NotBeZero", "NotBeEmpty"} =>
                      /\ th[g].status = "panicked"
                      /\ IsAssertionFailure(th[g].panic)
                /\ Passes("BeNil", NoArg, v) <=> NilByTest(v)
                /\ p = "BeZero"
                   /\ v \in {IntV(0), StrV("string", <<>>),
                              V("struct", "comparableStruct", FALSE, 0, <<0, 0>>, FALSE, <<>>)}
                   => Passed(g) /\ ~Passes("BeNil", NoArg, v)

\* A nil map, for which BeNil passes, meets NotBeZero and fails it.
C29_Witness ==
    /\ Active
    /\ th["main"].last.p = "NotBeZero"
    /\ th["main"].given = <<V("map", "map[int]int", TRUE, 0, <<>>, FALSE, <<>>)>>
    /\ Passes("BeNil", NoArg, th["main"].given[1])
    /\ th["main"].status = "panicked"

\* C30: chains running at once do not interfere.  The inert variant's one
\* handle is never written; in the active variant each Should makes a holder
\* of its own that no other chain holds and that keeps the value it was
\* given, so under every interleaving each call of a chain ends as it does
\* when the chain runs alone.
C30_NoInterference ==
    /\ Inert =>
          /\ heap = <<>>
          /\ \A g \in Goroutines :
                /\ th[g].recv \in {<<>>, <<NoOpAddr>>}
                /\ th[g].status # "panicked"
    /\ Active =>
          /\ \A g \in Goroutines :
                /\ th[g].status = "chain" => th[g].recv = th[g].holder
                /\ th[g].holder # <<>> =>
                      /\ th[g].holder[1] \in DOMAIN heap
                      /\ heap[th[g].holder[1]] = Should(th[g].given[1])
                /\ th[g].evaluated >= 1 =>
                      th[g].panic =
                          DebugCall(th[g].last.p, 1, <<Should(th[g].given[1])>>,
                                    th[g].last.x,
                                    UserStack(th[g].site, th[g].evaluated)).panic
          /\ th["main"].holder # <<>> => th["main"].holder # th["worker"].holder

\* Both chains under way at once on different values: the same call passes
\* in one and fails in the other.
C30_Witness ==
    /\ Active
    /\ th["main"].given = <<Nil>>
    /\ th["worker"].given = <<IntV(5)>>
    /\ th["main"].last.p = "BeNil"
    /\ th["worker"].last.p = "BeNil"
    /\ th["main"].status = "chain"
    /\ th["main"].evaluated = 2
    /\ th["worker"].status = "panicked"
    /\ th["worker"].holder = <<1>>
    /\ th["main"].holder = <<2>>

====
